---- MODULE Spec2Model ----
(***************************************************************************)
(* The batching pipeline of the radiology platform: the batch builder, the *)
(* sequential batch runner with its progress snapshots, the aggregation    *)
(* helpers, the AI client's outcome classification, the process-batch and  *)
(* generate-report HTTP boundaries with the report compiler, the upload    *)
(* boundary and the DICOM helpers.  JavaScript values are modelled with    *)
(* uniform types: an optional string field holds Undefined when it is not  *)
(* set, a number that may be NaN is a record (Num(n) or NaN).              *)
(***************************************************************************)
EXTENDS Integers, Sequences, FiniteSets, TLC

VARIABLES
  call,             \* the entry point this behaviour exercises
  pc,               \* position of the running handler
  request,          \* the body posted to the route
  response,         \* HTTP response of the route
  images,           \* image list handed to createBatches
  batches,          \* the batch records (objects, mutated in place)
  i,                \* loop index of processAllBatches (0-based)
  totalBatches,     \* processAllBatches: const totalBatches
  totalImages,      \* processAllBatches: const totalImages
  processedImages,  \* processAllBatches: let processedImages
  results,          \* processAllBatches: results[], as indices into batches
  onProgress,       \* the observer callback: Undefined or "callback"
  snapshots,        \* every ProcessingStatus handed to the observer, in order
  thrown,           \* the exception in flight or that rejected the run, or NoThrow
  observerThrows,   \* how many observer invocations have thrown so far
  fetchCalls,       \* every request sent to the AI endpoint, in order
  fetchResults,     \* what each request settled with, in order
  pauses,           \* the loop indices before which delay(1000) was awaited
  aggregate,        \* results of the aggregation helpers
  patientInfo,      \* generate-report: the patientInfo member of the body
  reportText,       \* generate-report: the compiled report, line by line
  files,            \* upload: formData.getAll('files')
  fileIndex,        \* upload: the loop index i of the file loop (0-based)
  uploadedImages,   \* upload: the route's processedImages list
  errors,           \* upload: the per-file error strings
  uploadPc,         \* upload: position of the upload handler, or "none"
  uploadRequest,    \* upload: the multipart request
  uploadResponse,   \* upload: HTTP response of the upload route
  timestamp,        \* upload: const timestamp of the iteration under way
  argument,         \* the argument of a direct call of a pure helper
  result,           \* what that call returned
  systemPrompt,     \* the systemPrompt argument of processAllBatches
  stage,            \* browser: the page shown, or "none" without a browser
  localStorage,     \* browser: the item 'customSystemPrompt', or Undefined
  configPage,       \* ConfigPage state: systemPrompt and saved
  pagePrompt,       \* UploadPage state: systemPrompt
  uploadState,      \* UploadPage state: uploadState
  firstRun,         \* the AI calls and the reply of the page's process-batch request
  sessionStorage,   \* browser: the item 'diagnosticReport', or NullElement
  reportsPage,      \* ReportsPage state: reportData and error
  session,          \* browser: the open document's pending calls and timers
  clock,            \* the last value Date.now() returned, as an offset in ms
  writes,           \* every fs.writeFile into the upload directory, in order
  peer              \* a second upload request handled concurrently

\* the state of the report compiler, of the upload loop and of a helper call
reportVars == <<patientInfo, reportText>>
uploadVars == <<files, fileIndex, uploadedImages, errors, uploadPc,
                uploadRequest, uploadResponse, timestamp>>
helperVars == <<argument, result>>
\* the browser session and the shared state of concurrent uploads
pageVars == <<stage, localStorage, configPage, pagePrompt, uploadState, firstRun,
              sessionStorage, reportsPage, session>>
storageVars == <<clock, writes, peer>>

vars == <<call, pc, request, response, images, batches, i, totalBatches,
          totalImages, processedImages, results, onProgress, snapshots,
          thrown, observerThrows, fetchCalls, fetchResults, pauses,
          aggregate, reportVars, uploadVars, helperVars, systemPrompt,
          pageVars, storageVars>>

(***************************************************************************)
(* Bounds of the model.                                                    *)
(***************************************************************************)
\* longest image list handed to createBatches or posted to the route
MaxImages == 45
\* longest batch list handed directly to processAllBatches
MaxBatches == 2
\* longest batch list handed directly to the aggregation helpers
MaxAggBatches == 3
\* longest batch list handed directly to the report compiler
MaxReportBatches == 3
\* longest buffer handed directly to isDicomFile
MaxBufferLength == 134
\* longest mixed file list of an upload
MaxUploadFiles == 3
\* largest value of Date.now(), in milliseconds after the first request
MaxClock == 2
\* most files in the concurrent upload request
MaxPeerFiles == 2
\* most uploads and most analyses the user of a browser starts
MaxPageUploads == 2
MaxAnalyses == 2

(***************************************************************************)
(* JavaScript values.                                                      *)
(***************************************************************************)
Undefined == "undefined"

\* JavaScript truthiness of an optional string: undefined and '' are falsy.
Truthy(v) == v # Undefined /\ v # ""

NaN == [kind |-> "NaN"]
Num(n) == [kind |-> "number", val |-> n]

Min(a, b) == IF a < b THEN a ELSE b

\* Array.prototype.slice(from, to) on a list (0-based, end exclusive).
Slice(s, from, to) == SubSeq(s, from + 1, Min(to, Len(s)))

\* Array.prototype.reduce((sum, batch) => sum + batch.images.length, 0)
RECURSIVE SumImages(_)
SumImages(bs) ==
  IF bs = <<>> THEN 0 ELSE Len(Head(bs).images) + SumImages(Tail(bs))

(***************************************************************************)
(* Images and batches.                                                     *)
(***************************************************************************)
\* A MedicalImage, reduced to its identity and its optional base64 payload.
Image(id, b64) == [id |-> id, base64Data |-> b64]

BATCH_SIZE == 20

\* NewBatch with the window cut one short: slice(i, i + BATCH_SIZE - 1).
NewBatchShortWindow(imgs, k) ==
  [id          |-> k \div BATCH_SIZE,
   images      |-> Slice(imgs, k, k + BATCH_SIZE - 1),
   status      |-> "pending",
   aiResponse  |-> Undefined,
   error       |-> Undefined,
   createdAt   |-> "now",
   completedAt |-> Undefined]

\* The batch record createBatches pushes for the window starting at index k.
NewBatch(imgs, k) ==
  [id          |-> k \div BATCH_SIZE,
   images      |-> Slice(imgs, k, k + BATCH_SIZE),
   status      |-> "pending",
   aiResponse  |-> Undefined,
   error       |-> Undefined,
   createdAt   |-> "now",
   completedAt |-> Undefined]

\* The for loop of createBatches from index k on.
RECURSIVE createBatchesFrom(_, _)
createBatchesFrom(imgs, k) ==
  IF k < Len(imgs)
  THEN <<NewBatch(imgs, k)>> \o createBatchesFrom(imgs, k + BATCH_SIZE)
  ELSE <<>>

createBatches(imgs) == createBatchesFrom(imgs, 0)

(***************************************************************************)
(* Progress arithmetic.                                                    *)
(***************************************************************************)
\* The pairs <<p, t>> with t <= 64 and p <= 2t for which the IEEE-754 double
\* (p / t) * 100 falls just below the exact integer 100p/t, so that
\* Math.floor returns one less (for example 29/50*100 = 57.99999999999999).
DoubleRoundsBelow ==
  {<<23, 20>>, <<29, 25>>, <<46, 40>>, <<29, 50>>, <<57, 50>>, <<58, 50>>,
   <<69, 60>>}

\* Math.floor((p / t) * 100) in double arithmetic: 0/0 is NaN.
FloorPercent(p, t) ==
  IF t = 0 THEN NaN
  ELSE Num(((p * 100) \div t) - (IF <<p, t>> \in DoubleRoundsBelow THEN 1 ELSE 0))

(***************************************************************************)
(* Aggregation helpers.                                                    *)
(***************************************************************************)
CountStatus(bs, st) == Len(SelectSeq(bs, LAMBDA b : b.status = st))

calculateOverallProgress(bs) ==
  LET completedBatches  == CountStatus(bs, "completed")
      failedBatches     == CountStatus(bs, "failed")
      processingBatches == CountStatus(bs, "processing")
      processed == SumImages(SelectSeq(bs,
                     LAMBDA b : b.status = "completed" \/ b.status = "failed"))
      total == SumImages(bs)
  IN [totalImages     |-> total,
      processedImages |-> processed,
      currentBatch    |-> completedBatches + failedBatches + Min(processingBatches, 1),
      totalBatches    |-> Len(bs),
      status          |-> IF completedBatches + failedBatches = Len(bs)
                          THEN (IF failedBatches = Len(bs) THEN "failed" ELSE "completed")
                          ELSE "processing",
      progress        |-> FloorPercent(processed, total)]

\* getSuccessfulBatches without the status test.
getSuccessfulBatchesAnyStatus(bs) ==
  SelectSeq(bs, LAMBDA b : Truthy(b.aiResponse))

getSuccessfulBatches(bs) ==
  SelectSeq(bs, LAMBDA b : b.status = "completed" /\ Truthy(b.aiResponse))

getFailedBatches(bs) == SelectSeq(bs, LAMBDA b : b.status = "failed")

(***************************************************************************)
(* The AI client.                                                          *)
(***************************************************************************)
\* A thrown Error instance with its message.
Error(msg) == [isError |-> TRUE, message |-> msg]

\* error instanceof Error ? error.message : fallback
MessageOf(e, fallback) == IF e.isError THEN e.message ELSE fallback

Throw(e) == [threw |-> TRUE, error |-> e]
Return(v) == [threw |-> FALSE, value |-> v]

\* What fetch(AI_ENDPOINT) and response.json() can yield for one request:
\* the request is rejected (network failure), answered with a non-success
\* status, or answered 200 with a body that is not JSON ("invalid"), is the
\* JSON value null ("null"), is an object without choices ("object"), or
\* carries choices[0].message.content ("choices").
FetchOutcome(rejected, ok, status, body, content) ==
  [rejected |-> rejected, ok |-> ok, status |-> status, body |-> body,
   content |-> content]

FetchOutcomes ==
  {FetchOutcome(TRUE, FALSE, "", "", ""),
   FetchOutcome(FALSE, FALSE, "500 Internal Server Error", "", ""),
   FetchOutcome(FALSE, TRUE, "200 OK", "invalid", ""),
   FetchOutcome(FALSE, TRUE, "200 OK", "null", ""),
   FetchOutcome(FALSE, TRUE, "200 OK", "object", ""),
   FetchOutcome(FALSE, TRUE, "200 OK", "choices", ""),
   FetchOutcome(FALSE, TRUE, "200 OK", "choices", "Findings text")}

parseAIResponse(text) ==
  [findings        |-> IF Truthy(text) THEN text
                       ELSE "No specific findings extracted from response.",
   recommendations |-> "Please consult with a qualified radiologist for interpretation.",
   confidence      |-> "0.8",
   keyObservations |-> <<>>,
   technicalNotes  |-> Undefined]

\* data.choices?.[0]?.message?.content || ''
ContentOf(o) == IF o.body = "choices" /\ Truthy(o.content) THEN o.content ELSE ""

\* analyzeImagesTry without the response.ok test.
analyzeImagesTryNoOkTest(o) ==
  IF o.rejected THEN Throw(Error("fetch failed"))
  ELSE IF o.body = "invalid" THEN Throw(Error("Unexpected token in JSON"))
  ELSE IF o.body = "null"
    THEN Throw(Error("Cannot read properties of null (reading 'choices')"))
  ELSE Return(parseAIResponse(ContentOf(o)))

\* The try block of analyzeImages from the fetch on: what it throws or returns.
analyzeImagesTry(o) ==
  IF o.rejected THEN Throw(Error("fetch failed"))
  ELSE IF ~o.ok THEN Throw(Error("AI API request failed: " \o o.status))
  ELSE IF o.body = "invalid" THEN Throw(Error("Unexpected token in JSON"))
  ELSE IF o.body = "null"
    THEN Throw(Error("Cannot read properties of null (reading 'choices')"))
  ELSE Return(parseAIResponse(ContentOf(o)))

\* analyzeImages: the catch block rethrows every error wrapped.
analyzeImages(o) ==
  LET r == analyzeImagesTry(o)
  IN IF r.threw
     THEN Throw(Error("AI analysis failed: " \o MessageOf(r.error, "Unknown error")))
     ELSE r

\* JSON.stringify of an AIAnalysisResponse: undefined members are left out.
JSONStringify(r) ==
  "{\"findings\":\"" \o r.findings \o "\",\"recommendations\":\""
    \o r.recommendations \o "\",\"confidence\":" \o r.confidence
    \o ",\"keyObservations\":[]}"

\* The built-in system prompt, by its first sentence.
DEFAULT_SYSTEM_PROMPT ==
  "You are an expert radiologist AI assistant specializing in medical image analysis."

\* AIClient.getDefaultSystemPrompt()
getDefaultSystemPrompt == DEFAULT_SYSTEM_PROMPT

\* new AIClient(customSystemPrompt) that keeps the built-in prompt.
AIClientDefaultOnly(customSystemPrompt) ==
  [systemPrompt |-> DEFAULT_SYSTEM_PROMPT]

\* new AIClient(customSystemPrompt):
\* this.systemPrompt = customSystemPrompt || DEFAULT_SYSTEM_PROMPT
AIClient(customSystemPrompt) ==
  [systemPrompt |-> IF Truthy(customSystemPrompt)
                    THEN customSystemPrompt
                    ELSE DEFAULT_SYSTEM_PROMPT]

\* messages[0] of the request analyzeImages posts.
SystemMessage(aiClient) == [role |-> "system", content |-> aiClient.systemPrompt]

(***************************************************************************)
(* The batch runner: BatchProcessor.processAllBatches and processBatch.    *)
(***************************************************************************)
NoThrow == [none |-> TRUE]

\* The batch object the loop is at: batches[i].
Current == batches[i + 1]

\* batch.<field> = value on the batch object at position idx (1-based).
SetStatus(bs, idx, st) == [bs EXCEPT ![idx].status = st]

\* The assignments of a catch block: status, error and completedAt.
MarkFailed(bs, idx, msg) ==
  [bs EXCEPT ![idx].status = "failed", ![idx].error = msg,
             ![idx].completedAt = "now"]

\* MarkCompleted without the status assignment.
MarkCompletedNoStatus(bs, idx, resp) ==
  [bs EXCEPT ![idx].aiResponse = JSONStringify(resp),
             ![idx].completedAt = "now"]

\* The assignments after a successful AI call.
MarkCompleted(bs, idx, resp) ==
  [bs EXCEPT ![idx].aiResponse = JSONStringify(resp),
             ![idx].status = "completed", ![idx].completedAt = "now"]

\* Processable without the filter: every image of the batch.
ProcessableUnfiltered(imgs) == imgs

\* batch.images.filter(img => img.base64Data)
Processable(imgs) == SelectSeq(imgs, LAMBDA img : Truthy(img.base64Data))

\* The ProcessingStatus object handed to onProgress.
Snapshot(cur, st, prog) ==
  [totalImages     |-> totalImages,
   processedImages |-> processedImages,
   currentBatch    |-> cur,
   totalBatches    |-> totalBatches,
   status          |-> st,
   progress        |-> prog]

\* The snapshot of lines 101-108 and 125-132.
LoopSnapshot ==
  Snapshot(i + 1, "processing", FloorPercent(processedImages, totalImages))

\* The snapshot of lines 150-157: progress is the literal 100.
FinalSnapshot == Snapshot(totalBatches, "completed", Num(100))

\* An invocation of the observer returns (FALSE) or throws (TRUE); without
\* an observer nothing is invoked.
ObserverOutcomes == IF onProgress = Undefined THEN {FALSE} ELSE BOOLEAN

ObserverError == Error("observer failed")

\* if (onProgress) { onProgress(snap) }: the effect on the observer's log.
Emit(snap) ==
  snapshots' = IF onProgress = Undefined THEN snapshots ELSE Append(snapshots, snap)

\* Lines 91-94: the locals of processAllBatches.
EnterRun ==
  /\ pc = "run_entry"
  /\ results' = <<>>
  /\ totalBatches' = Len(batches)
  /\ totalImages' = SumImages(batches)
  /\ processedImages' = 0
  /\ i' = 0
  /\ pc' = "loop"
  /\ UNCHANGED <<call, request, response, images, batches, onProgress,
                 snapshots, thrown, observerThrows, fetchCalls, pauses,
                 aggregate, fetchResults>>
  /\ UNCHANGED <<reportVars, uploadVars, helperVars, systemPrompt, pageVars, storageVars>>

\* Lines 96-109: the loop test holds and the progress update before the
\* try block; an exception of the observer escapes processAllBatches.
EmitBefore ==
  /\ pc = "loop"
  /\ i < Len(batches)
  /\ Emit(LoopSnapshot)
  /\ \E throws \in ObserverOutcomes :
       IF throws
       THEN /\ pc' = "rejected"
            /\ thrown' = ObserverError
            /\ observerThrows' = observerThrows + 1
       ELSE /\ pc' = "try"
            /\ UNCHANGED <<thrown, observerThrows>>
  /\ UNCHANGED <<call, request, response, images, batches, i, totalBatches,
                 totalImages, processedImages, results, onProgress,
                 fetchCalls, pauses, aggregate, fetchResults>>
  /\ UNCHANGED <<reportVars, uploadVars, helperVars, systemPrompt, pageVars, storageVars>>

\* Lines 111-115: await this.delay(1000) before every batch but the first.
Delay ==
  /\ pc = "try"
  /\ pauses' = IF i > 0 THEN Append(pauses, i) ELSE pauses
  /\ pc' = "processBatch"
  /\ UNCHANGED <<call, request, response, images, batches, i, totalBatches,
                 totalImages, processedImages, results, onProgress,
                 snapshots, thrown, observerThrows, fetchCalls, aggregate, fetchResults>>
  /\ UNCHANGED <<reportVars, uploadVars, helperVars, systemPrompt, pageVars, storageVars>>

\* processBatch line 31: batch.status = 'processing'.
ProcessBatchBegin ==
  /\ pc = "processBatch"
  /\ batches' = SetStatus(batches, i + 1, "processing")
  /\ pc' = "pb_filter"
  /\ UNCHANGED <<call, request, response, images, i, totalBatches,
                 totalImages, processedImages, results, onProgress,
                 snapshots, thrown, observerThrows, fetchCalls, pauses,
                 aggregate, fetchResults>>
  /\ UNCHANGED <<reportVars, uploadVars, helperVars, systemPrompt, pageVars, storageVars>>

\* processBatch lines 34-68: without a processable image the Error thrown at
\* line 37 is caught at line 76; otherwise the request goes out.
ProcessBatchSend ==
  /\ pc = "pb_filter"
  /\ LET processableImages == Processable(Current.images)
     IN IF Len(processableImages) = 0
        THEN /\ batches' = MarkFailed(batches, i + 1,
                             MessageOf(Error("No processable images in batch"),
                                       "Unknown error occurred"))
             /\ pc' = "pb_returned"
             /\ UNCHANGED fetchCalls
        ELSE /\ fetchCalls' = Append(fetchCalls,
                                [batch  |-> i + 1,
                                 images |-> processableImages,
                                 system |-> SystemMessage(AIClient(systemPrompt))])
             /\ pc' = "await_fetch"
             /\ UNCHANGED batches
  /\ UNCHANGED <<call, request, response, images, i, totalBatches,
                 totalImages, processedImages, results, onProgress,
                 snapshots, thrown, observerThrows, pauses, aggregate, fetchResults>>
  /\ UNCHANGED <<reportVars, uploadVars, helperVars, systemPrompt, pageVars, storageVars>>

\* processBatch lines 68-83: the AI call settles.
FetchSettles ==
  /\ pc = "await_fetch"
  /\ \E o \in FetchOutcomes :
       LET r == analyzeImages(o)
       IN /\ batches' = IF r.threw
                        THEN MarkFailed(batches, i + 1,
                                        MessageOf(r.error, "Unknown error occurred"))
                        ELSE MarkCompleted(batches, i + 1, r.value)
          /\ fetchResults' = Append(fetchResults, [batch |-> i + 1, outcome |-> o])
  /\ pc' = "pb_returned"
  /\ UNCHANGED <<call, request, response, images, i, totalBatches,
                 totalImages, processedImages, results, onProgress,
                 snapshots, thrown, observerThrows, fetchCalls, pauses,
                 aggregate>>
  /\ UNCHANGED <<reportVars, uploadVars, helperVars, systemPrompt, pageVars, storageVars>>

\* AfterBatch without results.push(processedBatch).
AfterBatchWithoutPush ==
  /\ pc = "pb_returned"
  /\ processedImages' = processedImages + Len(Current.images)
  /\ pc' = "progress_after"
  /\ UNCHANGED <<call, request, response, images, batches, i, totalBatches,
                 totalImages, onProgress, snapshots, thrown, observerThrows,
                 fetchCalls, pauses, aggregate, fetchResults, results>>
  /\ UNCHANGED <<reportVars, uploadVars, helperVars, systemPrompt, pageVars, storageVars>>

\* Lines 117-121: processBatch has resolved.
AfterBatch ==
  /\ pc = "pb_returned"
  /\ results' = Append(results, i + 1)
  /\ processedImages' = processedImages + Len(Current.images)
  /\ pc' = "progress_after"
  /\ UNCHANGED <<call, request, response, images, batches, i, totalBatches,
                 totalImages, onProgress, snapshots, thrown, observerThrows,
                 fetchCalls, pauses, aggregate, fetchResults>>
  /\ UNCHANGED <<reportVars, uploadVars, helperVars, systemPrompt, pageVars, storageVars>>

\* Lines 124-133: the progress update inside the try block; an exception of
\* the observer lands in the catch block of line 135.
EmitAfter ==
  /\ pc = "progress_after"
  /\ Emit(LoopSnapshot)
  /\ \E throws \in ObserverOutcomes :
       IF throws
       THEN /\ pc' = "catch"
            /\ thrown' = ObserverError
            /\ observerThrows' = observerThrows + 1
            /\ UNCHANGED i
       ELSE /\ pc' = "loop"
            /\ i' = i + 1
            /\ UNCHANGED <<thrown, observerThrows>>
  /\ UNCHANGED <<call, request, response, images, batches, totalBatches,
                 totalImages, processedImages, results, onProgress,
                 fetchCalls, pauses, aggregate, fetchResults>>
  /\ UNCHANGED <<reportVars, uploadVars, helperVars, systemPrompt, pageVars, storageVars>>

\* Lines 135-145: the catch block of the loop body.
CatchBlock ==
  /\ pc = "catch"
  /\ batches' = MarkFailed(batches, i + 1,
                           MessageOf(thrown, "Unknown error occurred"))
  /\ results' = Append(results, i + 1)
  /\ processedImages' = processedImages + Len(Current.images)
  /\ thrown' = NoThrow
  /\ i' = i + 1
  /\ pc' = "loop"
  /\ UNCHANGED <<call, request, response, images, totalBatches, totalImages,
                 onProgress, snapshots, observerThrows, fetchCalls, pauses,
                 aggregate, fetchResults>>
  /\ UNCHANGED <<reportVars, uploadVars, helperVars, systemPrompt, pageVars, storageVars>>

\* Lines 96, 148-160: the loop is over; the final progress update and the
\* return of results.
EmitFinal ==
  /\ pc = "loop"
  /\ i >= Len(batches)
  /\ Emit(FinalSnapshot)
  /\ \E throws \in ObserverOutcomes :
       IF throws
       THEN /\ pc' = "rejected"
            /\ thrown' = ObserverError
            /\ observerThrows' = observerThrows + 1
       ELSE /\ pc' = "returned"
            /\ UNCHANGED <<thrown, observerThrows>>
  /\ UNCHANGED <<call, request, response, images, batches, i, totalBatches,
                 totalImages, processedImages, results, onProgress,
                 fetchCalls, pauses, aggregate, fetchResults>>
  /\ UNCHANGED <<reportVars, uploadVars, helperVars, systemPrompt, pageVars, storageVars>>

(***************************************************************************)
(* The process-batch boundary: POST /api/process-batch.                    *)
(***************************************************************************)
NoResponse == [pending |-> TRUE]

\* NextResponse.json({ error }, { status })
ErrorResponse(code, msg) == [status |-> code, error |-> msg]

\* A null entry of the submitted list; reading a member of it throws.
NullElement == [isNull |-> TRUE]
IsNull(e) == "isNull" \in DOMAIN e

\* The batch objects in the order of the list the run returned.
Returned == [k \in 1..Len(results) |-> batches[results[k]]]

\* images.filter((img) => img.base64Data)
ValidImages(items) == SelectSeq(items, LAMBDA img : Truthy(img.base64Data))

\* !images || !Array.isArray(images) || images.length === 0
NoImagesProvided(imgs) == imgs.kind # "array" \/ Len(imgs.items) = 0

\* Lines 166-201, up to the await of processAllBatches.  request.json()
\* throws on a body that is not JSON, the destructuring throws on the body
\* null, and the filter throws on a null entry: each lands in the catch of
\* line 219.
PostValidate ==
  /\ call = "POST"
  /\ pc = "route_entry"
  /\ IF request.body # "object"
       \/ (~NoImagesProvided(request.images)
           /\ \E k \in 1..Len(request.images.items) :
                IsNull(request.images.items[k]))
     THEN /\ response' = ErrorResponse(500, "Failed to process image batches")
          /\ pc' = "responded"
          /\ UNCHANGED <<images, batches>>
     ELSE IF NoImagesProvided(request.images)
     THEN /\ response' = ErrorResponse(400, "No images provided for processing")
          /\ pc' = "responded"
          /\ UNCHANGED <<images, batches>>
     ELSE IF Len(ValidImages(request.images.items)) = 0
     THEN /\ response' = ErrorResponse(400, "No valid images with base64 data found")
          /\ pc' = "responded"
          /\ UNCHANGED <<images, batches>>
     ELSE /\ images' = ValidImages(request.images.items)
          /\ batches' = createBatches(images')
          /\ IF Len(batches') = 0
             THEN /\ response' = ErrorResponse(400, "Failed to create processing batches")
                  /\ pc' = "responded"
             ELSE /\ pc' = "run_entry"
                  /\ UNCHANGED response
  /\ systemPrompt' = IF request.body = "object"
                     THEN request.systemPrompt ELSE systemPrompt
  /\ UNCHANGED <<call, request, i, totalBatches, totalImages, processedImages,
                 results, onProgress, snapshots, thrown, observerThrows,
                 fetchCalls, pauses, aggregate, fetchResults>>
  /\ UNCHANGED <<reportVars, uploadVars, helperVars, pageVars, storageVars>>

\* Lines 203-228: the run has settled; the aggregate response, or the catch
\* of line 219 when the run rejected.
PostRespond ==
  /\ call = "POST"
  /\ pc \in {"returned", "rejected"}
  /\ IF pc = "rejected"
     THEN /\ response' = ErrorResponse(500, "Failed to process image batches")
          /\ UNCHANGED aggregate
     ELSE /\ aggregate' = [status     |-> calculateOverallProgress(Returned),
                           successful |-> getSuccessfulBatches(Returned),
                           failed     |-> getFailedBatches(Returned)]
          /\ response' = [status            |-> 200,
                          success           |-> TRUE,
                          totalImages       |-> Len(images),
                          totalBatches      |-> Len(batches),
                          processedBatches  |-> Returned,
                          successfulBatches |-> Len(aggregate'.successful),
                          failedBatches     |-> Len(aggregate'.failed),
                          overall           |-> aggregate'.status]
  /\ pc' = "responded"
  /\ UNCHANGED <<call, request, images, batches, i, totalBatches, totalImages,
                 processedImages, results, onProgress, snapshots, thrown,
                 observerThrows, fetchCalls, pauses, fetchResults>>
  /\ UNCHANGED <<reportVars, uploadVars, helperVars, systemPrompt, pageVars, storageVars>>

(***************************************************************************)
(* dicom-utils: isDicomFile, extractDicomMetadata, validateMedicalImage.   *)
(* A buffer is the list of its bytes; a file name is a string.             *)
(***************************************************************************)
\* The value handed to isDicomFile: a Buffer with its bytes, or null.
Buffer(bytes) == [kind |-> "buffer", bytes |-> bytes]
NullBuffer == [kind |-> "null", bytes |-> <<>>]

\* The character codes of 'DICM'.
DICM == <<68, 73, 67, 77>>

\* isDicomFile with the length test off by one: buffer.length <= 132.
isDicomFileLongerThan132(buffer) ==
  IF buffer.kind # "buffer" THEN FALSE
  ELSE IF Len(buffer.bytes) <= 132 THEN FALSE
  ELSE Slice(buffer.bytes, 128, 132) = DICM

\* Reading buffer.length of null throws inside the try block and the catch
\* returns false; String.fromCharCode(...bytes.slice(128, 132)) === 'DICM'
\* compares the four character codes.
isDicomFile(buffer) ==
  IF buffer.kind # "buffer" THEN FALSE
  ELSE IF Len(buffer.bytes) < 132 THEN FALSE
  ELSE Slice(buffer.bytes, 128, 132) = DICM

\* The fixed record of extractDicomMetadata.
extractDicomMetadata(buffer) ==
  [patientName |-> "Unknown", patientId |-> "AUTO-GENERATED",
   studyDate |-> "today", studyTime |-> "now", modality |-> "Unknown"]

UpperCase == "ABCDEFGHIJKLMNOPQRSTUVWXYZ"
LowerCase == "abcdefghijklmnopqrstuvwxyz"

\* String.prototype.toLowerCase on one character and on a string.
LowerChar(c) ==
  IF \E n \in 1..26 : SubSeq(UpperCase, n, n) = c
  THEN LET n == CHOOSE n \in 1..26 : SubSeq(UpperCase, n, n) = c
       IN SubSeq(LowerCase, n, n)
  ELSE c

RECURSIVE toLowerCase(_)
toLowerCase(str) ==
  IF str = "" THEN ""
  ELSE LowerChar(SubSeq(str, 1, 1)) \o toLowerCase(SubSeq(str, 2, Len(str)))

\* String.prototype.endsWith
endsWith(str, suffix) ==
  /\ Len(str) >= Len(suffix)
  /\ SubSeq(str, Len(str) - Len(suffix) + 1, Len(str)) = suffix

\* A File as the validator sees it: its name and its size in bytes.
validExtensions == <<".dcm", ".dicom", ".png", ".jpg", ".jpeg", ".bmp", ".tiff">>
maxSize == 100 * 1024 * 1024

validateMedicalImage(file) ==
  LET extension == toLowerCase(file.name)
      hasValidExtension ==
        \E k \in 1..Len(validExtensions) : endsWith(extension, validExtensions[k])
  IN IF ~hasValidExtension
     THEN [isValid  |-> FALSE,
           error    |-> "Invalid file type. Supported formats: DICOM, PNG, JPG, JPEG, BMP, TIFF",
           fileType |-> "PNG"]
     ELSE IF file.size > maxSize
     THEN [isValid  |-> FALSE,
           error    |-> "File size too large. Maximum size is 100MB per file",
           fileType |-> "PNG"]
     ELSE [isValid  |-> TRUE,
           error    |-> Undefined,
           fileType |->
             IF endsWith(extension, ".dcm") \/ endsWith(extension, ".dicom")
               THEN "DICOM"
             ELSE IF endsWith(extension, ".jpg") \/ endsWith(extension, ".jpeg")
               THEN "JPEG"
             ELSE IF endsWith(extension, ".png") THEN "PNG"
             ELSE IF endsWith(extension, ".bmp") THEN "BMP"
             ELSE IF endsWith(extension, ".tiff") THEN "TIFF"
             ELSE "PNG"]

(***************************************************************************)
(* The report compiler: generateComprehensiveReport.  The report string is *)
(* modelled as the list of its lines (the text split at every '\n').       *)
(***************************************************************************)
\* The optional patientInfo record of the request body.
PatientInfo(kind, name, id, studyDate, modality) ==
  [kind |-> kind, name |-> name, id |-> id, studyDate |-> studyDate,
   modality |-> modality]

NoPatientInfo == PatientInfo("undefined", Undefined, Undefined, Undefined, Undefined)

\* JSON.parse of a stored response: the strings JSON.stringify produced
\* parse back to their object, '{}' to an object without findings, 'null'
\* to null; any other text throws a SyntaxError.
JSONParse(text) ==
  IF text = JSONStringify(parseAIResponse("Findings text"))
    THEN Return([kind |-> "object", findings |-> "Findings text"])
  ELSE IF text = JSONStringify(parseAIResponse(""))
    THEN Return([kind |-> "object",
                 findings |-> "No specific findings extracted from response."])
  ELSE IF text = "{}" THEN Return([kind |-> "object", findings |-> Undefined])
  ELSE IF text = "null" THEN Return([kind |-> "null", findings |-> Undefined])
  ELSE Throw("SyntaxError: Unexpected token in JSON")

\* Lines 103-110.
PatientLines(p) ==
  IF p.kind # "object" THEN <<>>
  ELSE <<"## PATIENT INFORMATION">>
       \o (IF Truthy(p.name) THEN <<"Patient Name: " \o p.name>> ELSE <<>>)
       \o (IF Truthy(p.id) THEN <<"Patient ID: " \o p.id>> ELSE <<>>)
       \o (IF Truthy(p.studyDate) THEN <<"Study Date: " \o p.studyDate>> ELSE <<>>)
       \o (IF Truthy(p.modality) THEN <<"Modality: " \o p.modality>> ELSE <<>>)
       \o <<"">>

\* Lines 112-116.
SummaryLines(bs, successfulBatches, failedBatches) ==
  <<"## STUDY SUMMARY",
    "Total Images Analyzed: " \o ToString(SumImages(bs)),
    "Successful Batches: " \o ToString(Len(successfulBatches)),
    "Failed Batches: " \o ToString(Len(failedBatches)),
    "Analysis Date: now",
    "">>

\* SectionHeading numbered by the batch's own id instead of its position
\* among the successful batches.
SectionHeadingByBatchId(batch, index) ==
  "### Batch " \o ToString(batch.id + 1) \o " Analysis ("
    \o ToString(Len(batch.images)) \o " images)"

\* Lines 125 and 130.
SectionHeading(batch, index) ==
  "### Batch " \o ToString(index + 1) \o " Analysis ("
    \o ToString(Len(batch.images)) \o " images)"

\* Lines 122-132, the body of the forEach for one successful batch: the
\* heading is appended after JSON.parse and before aiResponse.findings is
\* read, so a response that parses to null appends it in the try block and
\* again in the catch block.
SectionLines(batch, index) ==
  LET aiResponse == JSONParse(batch.aiResponse)
      heading == SectionHeading(batch, index)
  IN IF aiResponse.threw
     THEN <<heading, "Error parsing AI response: " \o aiResponse.error, "">>
     ELSE IF aiResponse.value.kind = "null"
     THEN <<heading, heading,
            "Error parsing AI response: TypeError: Cannot read properties of null (reading 'findings')",
            "">>
     ELSE IF Truthy(aiResponse.value.findings)
     THEN <<heading, "**Findings:** " \o aiResponse.value.findings, "">>
     ELSE <<heading>>

\* FindingsFrom with the try/catch around the whole loop: the first response
\* that does not parse ends the loop after its error line.
RECURSIVE FindingsFromStopAtError(_, _)
FindingsFromStopAtError(successfulBatches, index) ==
  IF index >= Len(successfulBatches) THEN <<>>
  ELSE IF JSONParse(successfulBatches[index + 1].aiResponse).threw
  THEN SectionLines(successfulBatches[index + 1], index)
  ELSE SectionLines(successfulBatches[index + 1], index)
       \o FindingsFromStopAtError(successfulBatches, index + 1)

\* The forEach of lines 121-133 from position index on.
RECURSIVE FindingsFrom(_, _)
FindingsFrom(successfulBatches, index) ==
  IF index >= Len(successfulBatches) THEN <<>>
  ELSE SectionLines(successfulBatches[index + 1], index)
       \o FindingsFrom(successfulBatches, index + 1)

\* Lines 118-134.
FindingsLines(successfulBatches) ==
  IF Len(successfulBatches) > 0
  THEN <<"## CONSOLIDATED FINDINGS", "">> \o FindingsFrom(successfulBatches, 0)
  ELSE <<>>

\* Line 139.
ErrorLine(batch) ==
  "Batch: " \o (IF Truthy(batch.error) THEN batch.error ELSE "Unknown error")

\* Lines 136-142.
ErrorsLines(failedBatches) ==
  IF Len(failedBatches) > 0
  THEN <<"## PROCESSING ERRORS">>
       \o [k \in 1..Len(failedBatches) |-> ErrorLine(failedBatches[k])]
       \o <<"">>
  ELSE <<>>

DisclaimerHeading == "## IMPORTANT DISCLAIMER"
DisclaimerSentence ==
  "This report was generated using AI-assisted analysis and should always be reviewed by qualified medical professionals."

\* Lines 144-146.
DisclaimerLines ==
  <<DisclaimerHeading, DisclaimerSentence, "",
    "Generated by AI-Assisted Radiology Platform on now">>

\* generateComprehensiveReport with the disclaimer appended only when a
\* batch succeeded.
generateComprehensiveReportOnSuccess(bs, p) ==
  LET successfulBatches ==
        SelectSeq(bs, LAMBDA b : b.status = "completed" /\ Truthy(b.aiResponse))
      failedBatches == SelectSeq(bs, LAMBDA b : b.status = "failed")
  IN <<"# COMPREHENSIVE RADIOLOGY REPORT", "">>
     \o PatientLines(p)
     \o SummaryLines(bs, successfulBatches, failedBatches)
     \o FindingsLines(successfulBatches)
     \o ErrorsLines(failedBatches)
     \o (IF Len(successfulBatches) > 0 THEN DisclaimerLines ELSE <<>>)

generateComprehensiveReport(bs, p) ==
  LET successfulBatches ==
        SelectSeq(bs, LAMBDA b : b.status = "completed" /\ Truthy(b.aiResponse))
      failedBatches == SelectSeq(bs, LAMBDA b : b.status = "failed")
  IN <<"# COMPREHENSIVE RADIOLOGY REPORT", "">>
     \o PatientLines(p)
     \o SummaryLines(bs, successfulBatches, failedBatches)
     \o FindingsLines(successfulBatches)
     \o ErrorsLines(failedBatches)
     \o DisclaimerLines

(***************************************************************************)
(* The report-generation boundary: POST /api/generate-report.              *)
(***************************************************************************)
\* the locals of a run of processAllBatches and its history
runVars == <<i, totalBatches, totalImages, processedImages, results,
             onProgress, snapshots, thrown, observerThrows, fetchCalls,
             fetchResults, pauses>>

\* everything but the browser
serverVars == <<call, pc, request, response, images, batches, aggregate,
                runVars, reportVars, uploadVars, helperVars, systemPrompt,
                storageVars>>

\* images.filter(img => img.base64Data && img.base64Data !== 'DICOM_PLACEHOLDER')
ReportValidImages(items) ==
  SelectSeq(items, LAMBDA img : Truthy(img.base64Data)
                                  /\ img.base64Data # "DICOM_PLACEHOLDER")

\* Math.round((p / t) * 100) for t > 0 (exact for the t <= 8 of the model).
RoundPercent(p, t) == (200 * p + t) \div (2 * t)

\* The 500 response of the catch block, lines 82-90.
ReportFailure(e) ==
  [status |-> 500, error |-> "Failed to generate diagnostic report",
   details |-> MessageOf(e, "Unknown error")]

\* Lines 9-36, up to the await of processAllBatches.
ReportValidate ==
  /\ call = "REPORT"
  /\ pc = "route_entry"
  /\ IF request.body = "invalid"
     THEN /\ response' = ReportFailure(Error("Unexpected token in JSON"))
          /\ pc' = "responded"
          /\ UNCHANGED <<images, batches>>
     ELSE IF request.body = "null"
     THEN /\ response' = ReportFailure(Error(
                 "Cannot destructure property 'images' of 'body' as it is null."))
          /\ pc' = "responded"
          /\ UNCHANGED <<images, batches>>
     ELSE IF NoImagesProvided(request.images)
     THEN /\ response' = ErrorResponse(400, "No images provided for report generation")
          /\ pc' = "responded"
          /\ UNCHANGED <<images, batches>>
     ELSE IF \E k \in 1..Len(request.images.items) : IsNull(request.images.items[k])
     THEN /\ response' = ReportFailure(Error(
                 "Cannot read properties of null (reading 'base64Data')"))
          /\ pc' = "responded"
          /\ UNCHANGED <<images, batches>>
     ELSE IF Len(ReportValidImages(request.images.items)) = 0
     THEN /\ response' = ErrorResponse(400,
                 "No valid images with base64 data found. Please ensure non-DICOM images are uploaded or DICOM files are converted.")
          /\ pc' = "responded"
          /\ UNCHANGED <<images, batches>>
     ELSE /\ images' = ReportValidImages(request.images.items)
          /\ batches' = createBatches(images')
          /\ pc' = "run_entry"
          /\ UNCHANGED response
  /\ systemPrompt' = IF request.body = "object"
                     THEN request.systemPrompt ELSE systemPrompt
  /\ UNCHANGED <<call, request, aggregate, runVars, reportVars, uploadVars,
                 helperVars, pageVars, storageVars>>

\* ReportRespond with the batch results of the request body, when it has
\* any, in place of the results of the run.
ReportRespondFromBody ==
  /\ call = "REPORT"
  /\ pc \in {"returned", "rejected"}
  /\ IF pc = "rejected"
     THEN /\ response' = ReportFailure(thrown)
          /\ UNCHANGED reportText
     ELSE LET processedBatches == IF "batches" \in DOMAIN request
                                  THEN request.batches ELSE Returned
              successfulBatches ==
                SelectSeq(processedBatches, LAMBDA b : b.status = "completed")
              failedBatches ==
                SelectSeq(processedBatches, LAMBDA b : b.status = "failed")
              stats ==
                [totalImages       |-> Len(images),
                 totalBatches      |-> Len(processedBatches),
                 successfulBatches |-> Len(successfulBatches),
                 failedBatches     |-> Len(failedBatches),
                 successRate       |->
                   IF Len(processedBatches) > 0
                   THEN RoundPercent(Len(successfulBatches), Len(processedBatches))
                   ELSE 0]
          IN /\ reportText' = generateComprehensiveReport(processedBatches, patientInfo)
             /\ response' =
                  [status     |-> 200,
                   success    |-> TRUE,
                   report     |-> [totalImages |-> Len(images),
                                   batches     |-> processedBatches,
                                   status      |-> IF Len(failedBatches) = 0
                                                   THEN "completed" ELSE "completed",
                                   findings    |-> reportText'],
                   reportText |-> reportText',
                   batches    |-> processedBatches,
                   statistics |-> stats,
                   message    |-> "Report generated successfully: "
                                    \o ToString(stats.successfulBatches) \o "/"
                                    \o ToString(stats.totalBatches)
                                    \o " batches processed"]
  /\ pc' = "responded"
  /\ UNCHANGED <<call, request, images, batches, aggregate, runVars,
                 patientInfo, uploadVars, helperVars, systemPrompt, pageVars, storageVars>>

\* Lines 38-91: the run has settled; the report and its statistics, or the
\* catch of line 82 when the run rejected.
ReportRespond ==
  /\ call = "REPORT"
  /\ pc \in {"returned", "rejected"}
  /\ IF pc = "rejected"
     THEN /\ response' = ReportFailure(thrown)
          /\ UNCHANGED reportText
     ELSE LET processedBatches == Returned
              successfulBatches ==
                SelectSeq(processedBatches, LAMBDA b : b.status = "completed")
              failedBatches ==
                SelectSeq(processedBatches, LAMBDA b : b.status = "failed")
              stats ==
                [totalImages       |-> Len(images),
                 totalBatches      |-> Len(processedBatches),
                 successfulBatches |-> Len(successfulBatches),
                 failedBatches     |-> Len(failedBatches),
                 successRate       |->
                   IF Len(processedBatches) > 0
                   THEN RoundPercent(Len(successfulBatches), Len(processedBatches))
                   ELSE 0]
          IN /\ reportText' = generateComprehensiveReport(processedBatches, patientInfo)
             /\ response' =
                  [status     |-> 200,
                   success    |-> TRUE,
                   report     |-> [totalImages |-> Len(images),
                                   batches     |-> processedBatches,
                                   status      |-> IF Len(failedBatches) = 0
                                                   THEN "completed" ELSE "completed",
                                   findings    |-> reportText'],
                   reportText |-> reportText',
                   batches    |-> processedBatches,
                   statistics |-> stats,
                   message    |-> "Report generated successfully: "
                                    \o ToString(stats.successfulBatches) \o "/"
                                    \o ToString(stats.totalBatches)
                                    \o " batches processed"]
  /\ pc' = "responded"
  /\ UNCHANGED <<call, request, images, batches, aggregate, runVars,
                 patientInfo, uploadVars, helperVars, systemPrompt, pageVars, storageVars>>

(***************************************************************************)
(* The upload boundary: POST /api/upload.                                  *)
(***************************************************************************)
\* An uploaded File: name, size, content, and what the environment does to
\* it: "ok", or file.arrayBuffer() rejects ("readFails"), fs.writeFile
\* rejects ("writeFails"), or sharp rejects the content ("sharpFails").
File(name, size, bytes, io) ==
  [name |-> name, size |-> size, bytes |-> bytes, io |-> io]

MaxFilesPerUpload == 200

\* Buffer.prototype.toString('base64'): empty for an empty buffer.
Base64(bytes) == IF bytes = <<>> THEN "" ELSE "cmF3"

\* Lines 93-105: the PNG produced by sharp, or the original bytes when
\* sharp throws (as it does on an empty buffer).
ImageBase64(file) ==
  IF file.io = "sharpFails" \/ file.bytes = <<>>
  THEN Base64(file.bytes)
  ELSE "cG5n"

NoMetadata == [unset |-> TRUE]

\* The characters the regular expression [^a-zA-Z0-9.-] lets through.
SafeChars == UpperCase \o LowerCase \o "0123456789.-"

\* name.replace(/[^a-zA-Z0-9.-]/g, '_') on one character and on a string.
SanitizeChar(c) ==
  IF \E n \in 1..Len(SafeChars) : SubSeq(SafeChars, n, n) = c THEN c ELSE "_"

RECURSIVE Sanitize(_)
Sanitize(str) ==
  IF str = "" THEN ""
  ELSE SanitizeChar(SubSeq(str, 1, 1)) \o Sanitize(SubSeq(str, 2, Len(str)))

\* Lines 72-74: `${timestamp}_${i}_${sanitized name}`.
StoredName(ts, index, name) ==
  ToString(ts) \o "_" \o ToString(index) \o "_" \o Sanitize(name)

\* Line 77: fs.writeFile(join(uploadDir, filename), buffer), as an entry of
\* the log of writes: the path written, the request and its loop index.
WriteFile(filename, who, index) ==
  [name |-> filename, request |-> who, index |-> index]

\* MedicalImage with the branch decided by the extension alone.
MedicalImageByExtension(file, index, ts, validation) ==
  LET buffer == Buffer(file.bytes)
      isDicom == validation.fileType = "DICOM"
  IN [id           |-> index,
      originalName |-> file.name,
      fileName     |-> StoredName(ts, index, file.name),
      filePath     |-> "/uploads/" \o StoredName(ts, index, file.name),
      fileType     |-> validation.fileType,
      fileSize     |-> Len(file.bytes),
      isDicom      |-> isDicom,
      base64Data   |-> IF isDicom THEN Undefined ELSE ImageBase64(file),
      metadata     |-> IF isDicom THEN extractDicomMetadata(buffer) ELSE NoMetadata,
      processed    |-> FALSE]

\* Lines 79-121: the MedicalImage built for a validated, stored file.
MedicalImage(file, index, ts, validation) ==
  LET buffer == Buffer(file.bytes)
      isDicom == isDicomFile(buffer) \/ validation.fileType = "DICOM"
  IN [id           |-> index,
      originalName |-> file.name,
      fileName     |-> StoredName(ts, index, file.name),
      filePath     |-> "/uploads/" \o StoredName(ts, index, file.name),
      fileType     |-> validation.fileType,
      fileSize     |-> Len(file.bytes),
      isDicom      |-> isDicom,
      base64Data   |-> IF isDicom THEN Undefined ELSE ImageBase64(file),
      metadata     |-> IF isDicom THEN extractDicomMetadata(buffer) ELSE NoMetadata,
      processed    |-> FALSE]

\* errors.push(`File ${file.name}: ${reason}`)
FileError(file, reason) == "File " \o file.name \o ": " \o reason

\* errors: errors.length > 0 ? errors : undefined -- an undefined member
\* is left out of the JSON response.
WithErrors(r, errs) ==
  IF Len(errs) > 0
  THEN [k \in DOMAIN r \cup {"errors"} |-> IF k = "errors" THEN errs ELSE r[k]]
  ELSE r

\* Line 73: Date.now().  Time does not run backwards: the value is the one
\* last returned or a later one.
DateNow == clock..MaxClock

\* Lines 31-54: the call is rejected, or the file loop starts.
UploadBegin ==
  /\ uploadPc = "route_entry"
  /\ IF uploadRequest.body # "formData"
     THEN /\ uploadResponse' = ErrorResponse(500, "Failed to process uploads")
          /\ uploadPc' = "responded"
     ELSE IF Len(files) = 0
     THEN /\ uploadResponse' = ErrorResponse(400, "No files uploaded")
          /\ uploadPc' = "responded"
     ELSE IF Len(files) > MaxFilesPerUpload
     THEN /\ uploadResponse' = ErrorResponse(400, "Maximum 200 files allowed per upload")
          /\ uploadPc' = "responded"
     ELSE IF uploadRequest.uploadDir # "ok"
     THEN /\ uploadResponse' = ErrorResponse(500, "Failed to process uploads")
          /\ uploadPc' = "responded"
     ELSE /\ uploadPc' = "file_loop"
          /\ UNCHANGED uploadResponse
  /\ UNCHANGED <<call, pc, request, response, images, batches, aggregate,
                 runVars, reportVars, files, fileIndex, uploadedImages,
                 errors, uploadRequest, timestamp, helperVars, systemPrompt,
                 pageVars, storageVars>>

\* UploadFile with the try/catch around the whole loop: the first file that
\* fails ends the loop.
UploadFileStopsAtError ==
  /\ uploadPc = "file_loop"
  /\ fileIndex < Len(files)
  /\ LET file == files[fileIndex + 1]
         validation == validateMedicalImage(file)
     IN IF ~validation.isValid
        THEN /\ errors' = Append(errors, FileError(file, validation.error))
             /\ fileIndex' = Len(files)
             /\ UNCHANGED <<uploadPc, timestamp, clock, writes>>
        ELSE IF file.io = "readFails"
        THEN /\ errors' = Append(errors, FileError(file, "Processing error"))
             /\ fileIndex' = Len(files)
             /\ UNCHANGED <<uploadPc, timestamp, clock, writes>>
        ELSE \E now \in DateNow :
               /\ clock' = now
               /\ timestamp' = now
               /\ writes' = IF file.io = "writeFails" THEN writes
                            ELSE Append(writes,
                                   WriteFile(StoredName(now, fileIndex, file.name),
                                             "request", fileIndex))
               /\ uploadPc' = "file_written"
               /\ UNCHANGED <<errors, fileIndex>>
  /\ UNCHANGED <<call, pc, request, response, images, batches, aggregate,
                 runVars, reportVars, files, uploadedImages, uploadRequest,
                 uploadResponse, helperVars, systemPrompt, pageVars, peer>>

\* Lines 56-77: an iteration of the file loop up to the await of
\* fs.writeFile: the validation, the read of the content, the stored name
\* and the write.  A file that fails the validation or cannot be read gets
\* its error entry and the loop goes on.
UploadFile ==
  /\ uploadPc = "file_loop"
  /\ fileIndex < Len(files)
  /\ LET file == files[fileIndex + 1]
         validation == validateMedicalImage(file)
     IN IF ~validation.isValid
        THEN /\ errors' = Append(errors, FileError(file, validation.error))
             /\ fileIndex' = fileIndex + 1
             /\ UNCHANGED <<uploadPc, timestamp, clock, writes>>
        ELSE IF file.io = "readFails"
        THEN /\ errors' = Append(errors, FileError(file, "Processing error"))
             /\ fileIndex' = fileIndex + 1
             /\ UNCHANGED <<uploadPc, timestamp, clock, writes>>
        ELSE \E now \in DateNow :
               /\ clock' = now
               /\ timestamp' = now
               /\ writes' = IF file.io = "writeFails" THEN writes
                            ELSE Append(writes,
                                   WriteFile(StoredName(now, fileIndex, file.name),
                                             "request", fileIndex))
               /\ uploadPc' = "file_written"
               /\ UNCHANGED <<errors, fileIndex>>
  /\ UNCHANGED <<call, pc, request, response, images, batches, aggregate,
                 runVars, reportVars, files, uploadedImages, uploadRequest,
                 uploadResponse, helperVars, systemPrompt, pageVars, peer>>

\* Lines 77-128: the rest of the iteration, once fs.writeFile and sharp
\* have settled: the image is pushed, or the error entry of a write that
\* failed.
UploadFileStore ==
  /\ uploadPc = "file_written"
  /\ LET file == files[fileIndex + 1]
         validation == validateMedicalImage(file)
     IN IF file.io = "writeFails"
        THEN /\ errors' = Append(errors, FileError(file, "Processing error"))
             /\ UNCHANGED uploadedImages
        ELSE /\ uploadedImages' =
                  Append(uploadedImages,
                         MedicalImage(file, fileIndex, timestamp, validation))
             /\ UNCHANGED errors
  /\ fileIndex' = fileIndex + 1
  /\ uploadPc' = "file_loop"
  /\ UNCHANGED <<call, pc, request, response, images, batches, aggregate,
                 runVars, reportVars, files, uploadRequest, uploadResponse,
                 timestamp, helperVars, systemPrompt, pageVars, storageVars>>

\* Lines 72-77 in the handler of the concurrent request, which runs on its
\* own: the stored name and the write of its next file into the upload
\* directory both handlers write to.
PeerUploadFile ==
  /\ peer.fileIndex < Len(peer.files)
  /\ LET file == peer.files[peer.fileIndex + 1]
     IN \E now \in DateNow :
          /\ clock' = now
          /\ writes' = Append(writes,
                         WriteFile(StoredName(now, peer.fileIndex, file.name),
                                   "peer", peer.fileIndex))
  /\ peer' = [peer EXCEPT !.fileIndex = @ + 1]
  /\ UNCHANGED <<call, pc, request, response, images, batches, aggregate,
                 runVars, reportVars, uploadVars, helperVars, systemPrompt,
                 pageVars>>

\* UploadRespond without the test of line 130: the summary is returned
\* even when no file could be processed.
UploadRespondAlwaysSummary ==
  /\ uploadPc = "file_loop"
  /\ fileIndex >= Len(files)
  /\ uploadResponse' =
       WithErrors(
         [status  |-> 200,
          success |-> TRUE,
          message |-> "Successfully uploaded " \o ToString(Len(uploadedImages))
                        \o " files",
          images  |-> uploadedImages,
          summary |->
            [totalFiles    |-> Len(files),
             successful    |-> Len(uploadedImages),
             failed        |-> Len(errors),
             dicomFiles    |-> Len(SelectSeq(uploadedImages, LAMBDA img : img.isDicom)),
             regularImages |-> Len(SelectSeq(uploadedImages, LAMBDA img : ~img.isDicom))]],
         errors)
  /\ uploadPc' = "responded"
  /\ UNCHANGED <<call, pc, request, response, images, batches, aggregate,
                 runVars, reportVars, files, fileIndex, uploadedImages,
                 errors, uploadRequest, timestamp, helperVars, systemPrompt,
                 pageVars, storageVars>>

\* Lines 130-149: the loop is over.
UploadRespond ==
  /\ uploadPc = "file_loop"
  /\ fileIndex >= Len(files)
  /\ uploadResponse' =
       IF Len(uploadedImages) = 0
       THEN [status |-> 400,
             error  |-> "No files could be processed successfully",
             errors |-> errors]
       ELSE WithErrors(
            [status  |-> 200,
             success |-> TRUE,
             message |-> "Successfully uploaded " \o ToString(Len(uploadedImages))
                           \o " files",
             images  |-> uploadedImages,
             summary |->
               [totalFiles    |-> Len(files),
                successful    |-> Len(uploadedImages),
                failed        |-> Len(errors),
                dicomFiles    |-> Len(SelectSeq(uploadedImages, LAMBDA img : img.isDicom)),
                regularImages |-> Len(SelectSeq(uploadedImages, LAMBDA img : ~img.isDicom))]],
            errors)
  /\ uploadPc' = "responded"
  /\ UNCHANGED <<call, pc, request, response, images, batches, aggregate,
                 runVars, reportVars, files, fileIndex, uploadedImages,
                 errors, uploadRequest, timestamp, helperVars, systemPrompt,
                 pageVars, storageVars>>

(***************************************************************************)
(* Direct calls of the pure helpers.                                       *)
(***************************************************************************)
NoAggregate == [pending |-> TRUE]
NoResult == [pending |-> TRUE]

\* BatchProcessor.createBatches(images)
CallCreateBatches ==
  /\ call = "createBatches"
  /\ pc = "called"
  /\ batches' = createBatches(images)
  /\ pc' = "returned"
  /\ UNCHANGED <<call, request, response, images, i, totalBatches,
                 totalImages, processedImages, results, onProgress,
                 snapshots, thrown, observerThrows, fetchCalls, pauses,
                 aggregate, fetchResults>>
  /\ UNCHANGED <<reportVars, uploadVars, helperVars, systemPrompt, pageVars, storageVars>>

\* calculateOverallProgress, getSuccessfulBatches and getFailedBatches
\* applied to one batch list.
CallAggregates ==
  /\ call = "aggregates"
  /\ pc = "called"
  /\ aggregate' = [status     |-> calculateOverallProgress(batches),
                   successful |-> getSuccessfulBatches(batches),
                   failed     |-> getFailedBatches(batches)]
  /\ pc' = "returned"
  /\ UNCHANGED <<call, request, response, images, batches, i, totalBatches,
                 totalImages, processedImages, results, onProgress,
                 snapshots, thrown, observerThrows, fetchCalls, pauses, fetchResults>>
  /\ UNCHANGED <<reportVars, uploadVars, helperVars, systemPrompt, pageVars, storageVars>>

\* generateComprehensiveReport(batches, patientInfo)
CallGenerateReport ==
  /\ call = "generateComprehensiveReport"
  /\ pc = "called"
  /\ reportText' = generateComprehensiveReport(batches, patientInfo)
  /\ pc' = "returned"
  /\ UNCHANGED <<call, request, response, images, batches, aggregate,
                 runVars, patientInfo, uploadVars, helperVars, systemPrompt, pageVars, storageVars>>

\* isDicomFile(buffer)
CallIsDicomFile ==
  /\ call = "isDicomFile"
  /\ pc = "called"
  /\ result' = Return(isDicomFile(argument))
  /\ pc' = "returned"
  /\ UNCHANGED <<call, request, response, images, batches, aggregate,
                 runVars, reportVars, uploadVars, argument, systemPrompt,
                 pageVars, storageVars>>

\* validateMedicalImage(file)
CallValidateMedicalImage ==
  /\ call = "validateMedicalImage"
  /\ pc = "called"
  /\ result' = Return(validateMedicalImage(argument))
  /\ pc' = "returned"
  /\ UNCHANGED <<call, request, response, images, batches, aggregate,
                 runVars, reportVars, uploadVars, argument, systemPrompt,
                 pageVars, storageVars>>

(***************************************************************************)
(* Inputs.                                                                 *)
(***************************************************************************)
\* The payload of the image with identity id under a payload pattern:
\* every image has one ("all"), none has one ("none": undefined or ''),
\* every seventh lacks one ("holes"), one in three has one ("mixed"), or
\* every other one holds the string 'DICOM_PLACEHOLDER' ("placeholders").
PayloadPatterns == {"all", "none", "holes", "mixed", "placeholders"}

PayloadOf(pattern, id) ==
  CASE pattern = "all"   -> "b64"
    [] pattern = "none"  -> IF id % 2 = 1 THEN Undefined ELSE ""
    [] pattern = "holes" -> IF id % 7 = 0 THEN Undefined ELSE "b64"
    [] pattern = "mixed" -> IF id % 3 = 1 THEN "b64"
                            ELSE IF id % 3 = 2 THEN Undefined ELSE ""
    [] pattern = "placeholders" -> IF id % 2 = 1 THEN "DICOM_PLACEHOLDER" ELSE "b64"

\* The image list of length n with identities 1..n under a pattern.
ImageList(n, pattern) == [id \in 1..n |-> Image(id, PayloadOf(pattern, id))]

ImageLists == {ImageList(n, p) : n \in 0..MaxImages, p \in PayloadPatterns}

\* The images member of a request body.
NotAnArray == {[kind |-> k, items |-> <<>>] :
                 k \in {"undefined", "null", "string", "object"}}
ArrayOf(items) == [kind |-> "array", items |-> items]

\* The system prompts a caller supplies: none, the empty string, or a text
\* of its own.
CustomPrompt == "Report fractures only."
Prompts == {Undefined, "", CustomPrompt}

\* The bodies posted to the route: not JSON, the JSON value null, or an
\* object whose images member is no array, an array of images, or an array
\* of images followed by a null entry, all without a systemPrompt member;
\* and one batch of images, some without payload, and two batches of
\* images with payload, with a systemPrompt member.
Requests ==
  {[body |-> b, images |-> ArrayOf(<<>>), systemPrompt |-> Undefined] :
     b \in {"invalid", "null"}}
  \cup {[body |-> "object", images |-> m, systemPrompt |-> Undefined] :
          m \in NotAnArray}
  \cup {[body |-> "object", images |-> ArrayOf(l), systemPrompt |-> Undefined] :
          l \in ImageLists}
  \cup {[body |-> "object", images |-> ArrayOf(Append(l, NullElement)),
         systemPrompt |-> Undefined] :
          l \in {ImageList(n, "all") : n \in 0..1}}
  \cup {[body |-> "object", images |-> ArrayOf(ImageList(n, "holes")),
         systemPrompt |-> p] :
          n \in {1, BATCH_SIZE + 1}, p \in Prompts \ {Undefined}}
  \cup {[body |-> "object", images |-> ArrayOf(ImageList(BATCH_SIZE + 1, "all")),
         systemPrompt |-> p] :
          p \in Prompts \ {Undefined}}

NoRequest == [body |-> "none", images |-> ArrayOf(<<>>), systemPrompt |-> Undefined]

\* A batch as a caller of processAllBatches may hand it in: pending, with
\* the given images.
PendingBatch(k, imgs) == [NewBatch(imgs, 0) EXCEPT !.id = k]

\* The image lists of the batches handed directly to processAllBatches:
\* no image, one image without payload, one with, and one with followed by
\* one without.
BatchImageChoices ==
  {<<>>, <<Image(1, Undefined)>>, <<Image(1, "b64")>>,
   <<Image(1, "b64"), Image(2, "")>>}

BatchListsOf(n, choices) ==
  {[k \in 1..n |-> PendingBatch(k - 1, f[k])] : f \in [1..n -> choices]}

RunInputs == UNION {BatchListsOf(n, BatchImageChoices) : n \in 0..MaxBatches}

\* The batch lists handed directly to the aggregation helpers: any mix of
\* statuses, with the stored response unset, '' or set, and either no
\* images at all or k images in the k-th batch.
AggBatch(k, st, resp, withImages) ==
  [NewBatch(ImageList(IF withImages THEN k ELSE 0, "all"), 0) EXCEPT
     !.id = k - 1, !.status = st, !.aiResponse = resp]

AggChoices ==
  {"pending", "processing", "completed", "failed"}
    \X {Undefined, "", JSONStringify(parseAIResponse("Findings text"))}

\* The patientInfo members posted to the report route: absent, null, an
\* object without members, with a name only, and with every member.
PatientInfos ==
  {NoPatientInfo,
   PatientInfo("null", Undefined, Undefined, Undefined, Undefined),
   PatientInfo("object", Undefined, Undefined, Undefined, Undefined),
   PatientInfo("object", "Jane Doe", Undefined, "", Undefined),
   PatientInfo("object", "Jane Doe", "P-1", "2024-01-01", "CT")}

\* The batches handed directly to the report compiler: any status, the
\* stored response unset, '', a stringified response, '{}', 'null' or text
\* that is not JSON, the error unset or set, and k images in the k-th batch.
ReportBatch(k, st, resp, err) ==
  [NewBatch(ImageList(k, "all"), 0) EXCEPT
     !.id = k - 1, !.status = st, !.aiResponse = resp, !.error = err]

ReportChoices ==
  ({"completed"}
     \X {Undefined, "", JSONStringify(parseAIResponse("Findings text")),
         "{}", "null", "not json"}
     \X {Undefined})
  \cup ({"failed"} \X {Undefined, JSONStringify(parseAIResponse("Findings text"))}
          \X {Undefined, "AI analysis failed: fetch failed"})
  \cup ({"pending", "processing"} \X {Undefined} \X {Undefined})

\* The buffer of len bytes, all zero but for the four bytes of magic
\* written from offset at on (as far as they fit).
BufferOf(len, at, magic) ==
  Buffer([k \in 1..len |->
            IF k - 1 >= at /\ k - 1 < at + 4 THEN magic[k - at] ELSE 0])

\* 'DICM', 'dicm', 'DICN', zeros, 'MCID' and 'EICM'.
Magics ==
  {DICM, <<100, 105, 99, 109>>, <<68, 73, 67, 78>>, <<0, 0, 0, 0>>,
   <<77, 67, 73, 68>>, <<69, 73, 67, 77>>}

\* The values handed to isDicomFile: null, and buffers of 0, 4 and 128 to
\* MaxBufferLength bytes with a magic at offset 127, 128 or 129.
DicomInputs ==
  {NullBuffer}
  \cup {BufferOf(len, at, magic) :
          len \in {0, 4} \cup 128..MaxBufferLength, at \in 127..129,
          magic \in Magics}

FileNames ==
  {"scan.dcm", "SCAN.DCM", "scan.dicom", "scan.png", "Scan.PnG", "scan.jpg",
   "scan.jpeg", "scan.JPEG", "scan.bmp", "scan.tiff", "scan.TIFF", "scan.tif",
   "scan.TIF", "scan.gif", "scan.txt", "scan", "png", ".dcm", "scan.png.exe",
   "scan.dcm.png", "scan.tiff.bak", ""}

FileSizes == {0, 1, maxSize - 1, maxSize, maxSize + 1}

\* The files handed to validateMedicalImage.
ValidateInputs == {File(n, sz, <<>>, "ok") : n \in FileNames, sz \in FileSizes}

\* The files of an upload: a PNG, a file named .png whose content carries
\* the DICOM magic, a .dcm file without it, a .tif file, a file with a
\* foreign extension, an oversized PNG, an empty PNG, and PNGs whose read,
\* write or conversion fails.
SniffPositive == BufferOf(140, 128, DICM).bytes
Plain == <<137, 80, 78, 71>>

UploadChoices ==
  {File("a.png", 4, Plain, "ok"),
   File("b.png", 140, SniffPositive, "ok"),
   File("c.dcm", 4, Plain, "ok"),
   File("d.tif", 4, Plain, "ok"),
   File("e.txt", 4, Plain, "ok"),
   File("f.png", maxSize + 1, <<>>, "ok"),
   File("g.png", 0, <<>>, "ok"),
   File("h.png", 4, Plain, "readFails"),
   File("i.png", 4, Plain, "writeFails"),
   File("j.png", 4, Plain, "sharpFails")}

\* The multipart requests: a body formData() rejects, an upload directory
\* that cannot be created, or a readable form.
UploadRequests ==
  {[body |-> "invalid", uploadDir |-> "ok"],
   [body |-> "formData", uploadDir |-> "unwritable"],
   [body |-> "formData", uploadDir |-> "ok"]}

\* No upload request.
NoUploadRequest == [body |-> "none", uploadDir |-> "ok"]

\* No concurrent upload request.
NoPeer == [files |-> <<>>, fileIndex |-> 0]

\* The files of a request that is handled concurrently with another, and
\* the files of that other request.
ConcurrentChoices == {File("a.png", 4, Plain, "ok"), File("a b.png", 4, Plain, "ok")}
PeerChoices == {File("a.png", 4, Plain, "ok"), File("a_b.png", 4, Plain, "ok")}

(***************************************************************************)
(* The browser: the configuration, upload and reports pages.               *)
(***************************************************************************)
\* A page that is not mounted has no state.
Unmounted == [mounted |-> FALSE]
NoFirstRun == [pending |-> TRUE]

\* The open document: the step its processImages call awaits, whether its
\* handleFiles call awaits the upload, its pending router.push timers, and
\* how many uploads and analyses the user has started.
NoSession ==
  [analysis |-> "idle", upload |-> "idle", timers |-> 0,
   uploads |-> 0, analyses |-> 0]

\* window.location.href = ...: the document is replaced; its timers and
\* the calls it awaits are gone.
Reloaded(s) == [s EXCEPT !.analysis = "idle", !.upload = "idle", !.timers = 0]

\* useState of ConfigPage, lines 14-15.
ConfigPageMounted == [systemPrompt |-> getDefaultSystemPrompt, saved |-> FALSE]

\* useState of UploadPage, lines 27-32.
UploadStateMounted ==
  [images |-> <<>>, isUploading |-> FALSE, isProcessing |-> FALSE,
   uploadProgress |-> 0, error |-> Undefined, success |-> Undefined,
   processingStatus |-> [unset |-> TRUE]]

\* part_002 lines 41-59: the state of ReportsPage after its effect has read
\* the item 'diagnosticReport'.
ReportsPageMounted(storedData) ==
  IF IsNull(storedData)
  THEN [reportData |-> NullElement,
        error |-> "No diagnostic report available. Please upload and process images first."]
  ELSE [reportData |-> storedData, error |-> Undefined]

\* What the user types into a prompt text area.
TypedPrompts == {CustomPrompt, ""}

\* config/page.tsx lines 241-283: the prompts of the template buttons.
Templates ==
  {"You are an expert chest radiologist specializing in thoracic imaging.",
   "You are a musculoskeletal radiologist with expertise in orthopedic imaging.",
   "You are a neuroradiologist specializing in brain and spine imaging.",
   getDefaultSystemPrompt}

\* The files the user drops on the upload page: an image, a DICOM file, a
\* text file, or more than 200 images.
PageFiles ==
  {<<File("a.png", 4, Plain, "ok")>>,
   <<File("c.dcm", 4, Plain, "ok")>>,
   <<File("e.txt", 4, Plain, "ok")>>,
   [k \in 1..(MaxFilesPerUpload + 1) |-> File("a.png", 4, Plain, "ok")]}

\* Files the user uploads before an analysis.
PngFile == File("a.png", 4, Plain, "ok")
DicomFile == File("c.dcm", 4, Plain, "ok")

\* The images of the answer to an upload of the valid files fs, all
\* written at time 0, and the entries of these writes.
StoredImages(fs) ==
  [k \in 1..Len(fs) |->
     MedicalImage(fs[k], k - 1, 0, validateMedicalImage(fs[k]))]

StoredWrites(fs) ==
  [k \in 1..Len(fs) |->
     WriteFile(StoredName(0, k - 1, fs[k].name), "request", k - 1)]

\* upload/page.tsx lines 64-112: the upload state once handleFiles has
\* uploaded the files fs and read the answer.
AfterUpload(state, fs) ==
  [state EXCEPT
     !.images = StoredImages(fs),
     !.isUploading = FALSE,
     !.error = Undefined,
     !.uploadProgress = 100,
     !.success = "Successfully uploaded " \o Undefined \o " files"]

\* upload/page.tsx lines 115-149 and 203-212: the upload state once the
\* process-batch boundary has refused the analysis of n images.
AfterRefusal(state, n) ==
  [state EXCEPT
     !.isProcessing = FALSE,
     !.error = "No valid images with base64 data found",
     !.processingStatus =
        [totalImages     |-> n,
         processedImages |-> 0,
         currentBatch    |-> 0,
         totalBatches    |-> (n + 19) \div 20,
         status          |-> "failed",
         progress        |-> 0]]

\* generate-report/route.ts lines 33-80: the answer to the report request
\* for the images imgs when every AI call was answered with findings.
FirstReport(imgs) ==
  LET processedBatches ==
        [k \in DOMAIN createBatches(imgs) |->
           [createBatches(imgs)[k] EXCEPT
              !.status = "completed",
              !.aiResponse = JSONStringify(parseAIResponse("Findings text")),
              !.completedAt = "now"]]
      text ==
        generateComprehensiveReport(
          processedBatches,
          PatientInfo("object", "Patient", "AUTO-GENERATED", "2024-01-01", "Multiple"))
  IN [status     |-> 200,
      success    |-> TRUE,
      report     |-> [totalImages |-> Len(imgs),
                      batches     |-> processedBatches,
                      status      |-> "completed",
                      findings    |-> text],
      reportText |-> text,
      batches    |-> processedBatches,
      statistics |-> [totalImages       |-> Len(imgs),
                      totalBatches      |-> Len(processedBatches),
                      successfulBatches |-> Len(processedBatches),
                      failedBatches     |-> 0,
                      successRate       |-> 100],
      message    |-> "Report generated successfully: "
                       \o ToString(Len(processedBatches)) \o "/"
                       \o ToString(Len(processedBatches)) \o " batches processed"]

\* upload/page.tsx lines 115-201: the upload state once an analysis of n
\* images in one batch has completed.
AfterAnalysis(state, n) ==
  [state EXCEPT
     !.isProcessing = FALSE,
     !.error = Undefined,
     !.success = "Processing completed! 1/1 batches successful",
     !.processingStatus =
        [totalImages     |-> n,
         processedImages |-> 0,
         currentBatch    |-> 0,
         totalBatches    |-> 1,
         status          |-> "completed",
         progress        |-> 100]]

\* What localStorage holds under 'customSystemPrompt' when the upload page
\* mounts: nothing, or a prompt saved on the configuration page.
SavedPrompts == {Undefined, CustomPrompt}

\* The state of a handler that has not run yet.
FreshHandler ==
  /\ response' = NoResponse
  /\ images' = <<>>
  /\ batches' = <<>>
  /\ aggregate' = NoAggregate
  /\ reportText' = <<>>
  /\ i' = 0
  /\ totalBatches' = 0
  /\ totalImages' = 0
  /\ processedImages' = 0
  /\ results' = <<>>
  /\ snapshots' = <<>>
  /\ thrown' = NoThrow
  /\ observerThrows' = 0
  /\ fetchCalls' = <<>>
  /\ fetchResults' = <<>>
  /\ pauses' = <<>>
  /\ UNCHANGED <<onProgress, systemPrompt>>

\* The answer of the analysis request has been read: its handler is over.
HandlerOver ==
  /\ call' = "browser"
  /\ pc' = "idle"
  /\ request' = NoRequest
  /\ patientInfo' = NoPatientInfo
  /\ FreshHandler

\* The answer of the upload request has been read: its handler is over.
UploadOver ==
  /\ files' = <<>>
  /\ fileIndex' = 0
  /\ uploadedImages' = <<>>
  /\ errors' = <<>>
  /\ uploadPc' = "none"
  /\ uploadRequest' = NoUploadRequest
  /\ uploadResponse' = NoResponse
  /\ timestamp' = 0

\* config/page.tsx line 67: onChange of the text area.
ConfigEdit ==
  /\ stage = "config_page"
  /\ \E text \in TypedPrompts :
       /\ text # configPage.systemPrompt
       /\ configPage' = [configPage EXCEPT !.systemPrompt = text]
  /\ UNCHANGED <<serverVars, stage, localStorage, pagePrompt, uploadState,
                 firstRun, sessionStorage, reportsPage, session>>

\* config/page.tsx lines 241, 255, 269 and 283: a template button.
SelectTemplate ==
  /\ stage = "config_page"
  /\ \E text \in Templates :
       /\ text # configPage.systemPrompt
       /\ configPage' = [configPage EXCEPT !.systemPrompt = text]
  /\ UNCHANGED <<serverVars, stage, localStorage, pagePrompt, uploadState,
                 firstRun, sessionStorage, reportsPage, session>>

\* config/page.tsx lines 17-22: saveConfiguration.
saveConfiguration ==
  /\ stage = "config_page"
  /\ localStorage' = configPage.systemPrompt
  /\ configPage' = [configPage EXCEPT !.saved = TRUE]
  /\ UNCHANGED <<serverVars, stage, pagePrompt, uploadState, firstRun,
                 sessionStorage, reportsPage, session>>

\* config/page.tsx line 21: the timer that hides the alert.
SavedAlertExpires ==
  /\ stage = "config_page"
  /\ configPage.saved
  /\ configPage' = [configPage EXCEPT !.saved = FALSE]
  /\ UNCHANGED <<serverVars, stage, localStorage, pagePrompt, uploadState,
                 firstRun, sessionStorage, reportsPage, session>>

\* config/page.tsx lines 24-27: resetToDefault.
resetToDefault ==
  /\ stage = "config_page"
  /\ configPage' = [configPage EXCEPT !.systemPrompt = getDefaultSystemPrompt]
  /\ localStorage' = Undefined
  /\ UNCHANGED <<serverVars, stage, pagePrompt, uploadState, firstRun,
                 sessionStorage, reportsPage, session>>

\* config/page.tsx lines 29-34: loadSavedPrompt.
loadSavedPrompt ==
  /\ stage = "config_page"
  /\ LET saved == localStorage
     IN IF Truthy(saved)
        THEN configPage' = [configPage EXCEPT !.systemPrompt = saved]
        ELSE UNCHANGED configPage
  /\ UNCHANGED <<serverVars, stage, localStorage, pagePrompt, uploadState,
                 firstRun, sessionStorage, reportsPage, session>>

\* config/page.tsx line 296: window.location.href = '/upload'.  The upload
\* page mounts with the state of upload/page.tsx lines 27-33.
OpenUploadPage ==
  /\ stage = "config_page"
  /\ stage' = "upload_page"
  /\ configPage' = Unmounted
  /\ pagePrompt' = getDefaultSystemPrompt
  /\ uploadState' = UploadStateMounted
  /\ session' = Reloaded(session)
  /\ UNCHANGED <<serverVars, localStorage, firstRun, sessionStorage, reportsPage>>

\* upload/page.tsx lines 407 and 413: the text area of the upload page and
\* its reset button.
setSystemPrompt ==
  /\ stage = "upload_page"
  /\ \E text \in TypedPrompts \cup {getDefaultSystemPrompt} :
       /\ text # pagePrompt
       /\ pagePrompt' = text
  /\ UNCHANGED <<serverVars, stage, localStorage, configPage, uploadState,
                 firstRun, sessionStorage, reportsPage, session>>

\* upload/page.tsx lines 64-89: handleFiles up to the await of the upload
\* request, which the upload route then handles.  The file input is
\* disabled and the drop zone inert while isUploading (lines 248-255, 280).
handleFiles ==
  /\ stage = "upload_page"
  /\ ~uploadState.isUploading
  /\ session.uploads < MaxPageUploads
  /\ \E chosen \in PageFiles, dir \in {"ok", "unwritable"} :
       IF Len(chosen) > 200
       THEN /\ uploadState' =
                 [uploadState EXCEPT
                    !.error = "Maximum 200 files allowed. Please select fewer files."]
            /\ UNCHANGED <<uploadVars, session>>
       ELSE /\ uploadState' = [uploadState EXCEPT !.isUploading = TRUE,
                                                 !.error = Undefined,
                                                 !.uploadProgress = 0]
            /\ session' = [session EXCEPT !.upload = "awaiting", !.uploads = @ + 1]
            /\ files' = chosen
            /\ fileIndex' = 0
            /\ uploadedImages' = <<>>
            /\ errors' = <<>>
            /\ uploadPc' = "route_entry"
            /\ uploadRequest' = [body |-> "formData", uploadDir |-> dir]
            /\ uploadResponse' = NoResponse
            /\ UNCHANGED timestamp
  /\ UNCHANGED <<call, pc, request, response, images, batches, aggregate,
                 runVars, reportVars, helperVars, systemPrompt, storageVars,
                 stage, localStorage, configPage, pagePrompt, firstRun,
                 sessionStorage, reportsPage>>

\* upload/page.tsx lines 91-112: the upload request has been answered.  The
\* answer has no member processedFiles, which the message interpolates.
handleFilesDone ==
  /\ session.upload = "awaiting"
  /\ uploadPc = "responded"
  /\ session' = [session EXCEPT !.upload = "idle"]
  /\ IF stage # "upload_page"
     THEN UNCHANGED uploadState
     ELSE IF uploadResponse.status # 200
     THEN uploadState' =
            [uploadState EXCEPT
               !.isUploading = FALSE,
               !.error = IF Truthy(uploadResponse.error)
                         THEN uploadResponse.error ELSE "Upload failed"]
     ELSE uploadState' =
            [uploadState EXCEPT
               !.images = uploadResponse.images,
               !.isUploading = FALSE,
               !.uploadProgress = 100,
               !.success = "Successfully uploaded " \o Undefined \o " files"]
  /\ UploadOver
  /\ UNCHANGED <<call, pc, request, response, images, batches, aggregate,
                 runVars, reportVars, helperVars, systemPrompt, storageVars,
                 stage, localStorage, configPage, pagePrompt, firstRun,
                 sessionStorage, reportsPage>>

\* upload/page.tsx lines 216-223: resetUpload.  The button is rendered
\* when there are images (line 342) and disabled while isProcessing (line
\* 381).
resetUpload ==
  /\ stage = "upload_page"
  /\ Len(uploadState.images) > 0
  /\ ~uploadState.isProcessing
  /\ uploadState' = UploadStateMounted
  /\ UNCHANGED <<serverVars, stage, localStorage, configPage, pagePrompt,
                 firstRun, sessionStorage, reportsPage, session>>

\* upload/page.tsx lines 115-149: processImages up to the await of the
\* process-batch request.  The button is rendered when there are images
\* (line 342), so that the test of line 116 never succeeds, and it is
\* disabled while isProcessing (line 354).
processImages ==
  /\ stage = "upload_page"
  /\ Len(uploadState.images) > 0
  /\ ~uploadState.isProcessing
  /\ session.analyses < MaxAnalyses
  /\ IF Len(uploadState.images) = 0
     THEN /\ uploadState' = [uploadState EXCEPT !.error = "No images to process"]
          /\ UNCHANGED <<call, pc, request, response, images, batches,
                         aggregate, runVars, reportText, systemPrompt, session>>
     ELSE /\ uploadState' =
               [uploadState EXCEPT
                  !.isProcessing = TRUE,
                  !.error = Undefined,
                  !.processingStatus =
                     [totalImages     |-> Len(uploadState.images),
                      processedImages |-> 0,
                      currentBatch    |-> 0,
                      totalBatches    |-> (Len(uploadState.images) + 19) \div 20,
                      status          |-> "processing",
                      progress        |-> 0]]
          /\ request' = [body         |-> "object",
                         images       |-> ArrayOf(uploadState.images),
                         systemPrompt |-> pagePrompt]
          /\ call' = "POST"
          /\ pc' = "route_entry"
          /\ session' = [session EXCEPT !.analysis = "awaiting_batches",
                                        !.analyses = @ + 1]
          /\ FreshHandler
  /\ UNCHANGED <<patientInfo, uploadVars, helperVars, storageVars, stage,
                 localStorage, configPage, pagePrompt, firstRun,
                 sessionStorage, reportsPage>>

\* upload/page.tsx lines 203-212: the catch of processImages.
ProcessingFailed(state, message) ==
  [state EXCEPT
     !.isProcessing = FALSE,
     !.processingStatus = IF "unset" \in DOMAIN @ THEN @
                          ELSE [@ EXCEPT !.status = "failed"],
     !.error = message]

\* upload/page.tsx lines 164-174: the body of the generate-report request.
\* It has the members images, batches, patientInfo and exportFormat and no
\* member systemPrompt, which the route therefore reads as undefined.
ReportRequestBody(imgs, processedBatches) ==
  [body         |-> "object",
   images       |-> ArrayOf(imgs),
   batches      |-> processedBatches,
   systemPrompt |-> Undefined,
   exportFormat |-> "PDF"]

\* upload/page.tsx lines 151-175 and 203-212: the process-batch request has
\* been answered; the generate-report request goes out with the images the
\* click captured, or the failure is shown.
processImagesReport ==
  /\ session.analysis = "awaiting_batches"
  /\ call = "POST"
  /\ pc = "responded"
  /\ IF response.status # 200
     THEN /\ uploadState' =
               IF stage # "upload_page" THEN uploadState
               ELSE ProcessingFailed(uploadState,
                      IF Truthy(response.error)
                      THEN response.error ELSE "Processing failed")
          /\ session' = [session EXCEPT !.analysis = "idle"]
          /\ HandlerOver
          /\ UNCHANGED firstRun
     ELSE /\ firstRun' = [calls |-> fetchCalls, data |-> response]
          /\ request' = ReportRequestBody(request.images.items,
                                          response.processedBatches)
          \* studyDate: new Date().toISOString().split('T')[0] of line 170
          /\ patientInfo' = PatientInfo("object", "Patient", "AUTO-GENERATED",
                                        "2024-01-01", "Multiple")
          /\ call' = "REPORT"
          /\ pc' = "route_entry"
          /\ session' = [session EXCEPT !.analysis = "awaiting_report"]
          /\ FreshHandler
          /\ UNCHANGED uploadState
  /\ UNCHANGED <<uploadVars, helperVars, storageVars, stage, localStorage,
                 configPage, pagePrompt, sessionStorage, reportsPage>>

\* upload/page.tsx lines 177-212: the generate-report request has been
\* answered; the report is stored for the reports page and the timer of
\* router.push is set, or the failure is shown.
processImagesDone ==
  /\ session.analysis = "awaiting_report"
  /\ call = "REPORT"
  /\ pc = "responded"
  /\ IF response.status # 200
     THEN /\ uploadState' =
               IF stage # "upload_page" THEN uploadState
               ELSE ProcessingFailed(uploadState,
                      IF Truthy(response.error)
                      THEN response.error ELSE "Report generation failed")
          /\ session' = [session EXCEPT !.analysis = "idle"]
          /\ UNCHANGED sessionStorage
     ELSE /\ uploadState' =
               IF stage # "upload_page" THEN uploadState
               ELSE [uploadState EXCEPT
                       !.isProcessing = FALSE,
                       !.processingStatus = [@ EXCEPT !.status = "completed",
                                                      !.progress = 100],
                       !.success = "Processing completed! "
                                     \o ToString(firstRun.data.successfulBatches) \o "/"
                                     \o ToString(firstRun.data.totalBatches)
                                     \o " batches successful"]
          /\ sessionStorage' = response
          /\ session' = [session EXCEPT !.analysis = "idle", !.timers = @ + 1]
  /\ HandlerOver
  /\ firstRun' = NoFirstRun
  /\ UNCHANGED <<uploadVars, helperVars, storageVars, stage, localStorage,
                 configPage, pagePrompt, reportsPage>>

\* upload/page.tsx lines 199-201: the timer fires and router.push('/reports')
\* replaces the upload page by the reports page, which reads the stored
\* report; on the reports page the push changes nothing.
RouterPush ==
  /\ session.timers > 0
  /\ session' = [session EXCEPT !.timers = @ - 1]
  /\ IF stage = "upload_page"
     THEN /\ stage' = "reports_page"
          /\ uploadState' = Unmounted
          /\ pagePrompt' = Undefined
          /\ reportsPage' = ReportsPageMounted(sessionStorage)
     ELSE UNCHANGED <<stage, uploadState, pagePrompt, reportsPage>>
  /\ UNCHANGED <<serverVars, localStorage, configPage, firstRun, sessionStorage>>

\* config/page.tsx line 293: window.location.href = '/'.  The page '/' is
\* the dashboard.
ReturnToDashboard ==
  /\ stage = "config_page"
  /\ stage' = "dashboard"
  /\ configPage' = Unmounted
  /\ session' = Reloaded(session)
  /\ UNCHANGED <<serverVars, localStorage, pagePrompt, uploadState, firstRun,
                 sessionStorage, reportsPage>>

\* part_002 line 324: window.location.href = '/', a button of the report
\* view (line 113), which is shown when there is a report and no error.
ReportReturnToDashboard ==
  /\ stage = "reports_page"
  /\ ~IsNull(reportsPage.reportData)
  /\ reportsPage.error = Undefined
  /\ stage' = "dashboard"
  /\ reportsPage' = Unmounted
  /\ session' = Reloaded(session)
  /\ UNCHANGED <<serverVars, localStorage, configPage, pagePrompt, uploadState,
                 firstRun, sessionStorage>>

\* part_002 lines 98, 124 and 321: window.location.href = '/upload'.
NewAnalysis ==
  /\ stage = "reports_page"
  /\ stage' = "upload_page"
  /\ reportsPage' = Unmounted
  /\ pagePrompt' = getDefaultSystemPrompt
  /\ uploadState' = UploadStateMounted
  /\ session' = Reloaded(session)
  /\ UNCHANGED <<serverVars, localStorage, configPage, firstRun, sessionStorage>>

(***************************************************************************)
(* Specification.                                                          *)
(***************************************************************************)
NothingInFlight ==
  /\ i = 0
  /\ totalBatches = 0
  /\ totalImages = 0
  /\ processedImages = 0
  /\ results = <<>>
  /\ snapshots = <<>>
  /\ thrown = NoThrow
  /\ observerThrows = 0
  /\ fetchCalls = <<>>
  /\ fetchResults = <<>>
  /\ pauses = <<>>
  /\ aggregate = NoAggregate
  /\ response = NoResponse
  /\ reportText = <<>>
  /\ fileIndex = 0
  /\ uploadedImages = <<>>
  /\ errors = <<>>
  /\ uploadResponse = NoResponse
  /\ timestamp = 0
  /\ result = NoResult

\* Nothing has happened yet.
Idle ==
  /\ NothingInFlight
  /\ sessionStorage = NullElement
  /\ firstRun = NoFirstRun
  /\ writes = <<>>

\* No browser takes part.
NoBrowser ==
  /\ stage = "none"
  /\ clock = 0
  /\ localStorage = Undefined
  /\ configPage = Unmounted
  /\ pagePrompt = Undefined
  /\ uploadState = Unmounted
  /\ reportsPage = Unmounted
  /\ session = NoSession

\* A request arrives at POST /api/process-batch.
InitPost ==
  /\ call = "POST"
  /\ pc = "route_entry"
  /\ request \in Requests
  /\ images = <<>>
  /\ batches = <<>>
  /\ onProgress = Undefined
  /\ Idle
  /\ patientInfo = NoPatientInfo
  /\ files = <<>>
  /\ uploadPc = "none"
  /\ uploadRequest = NoUploadRequest
  /\ argument = Undefined
  /\ systemPrompt = Undefined
  /\ peer = NoPeer
  /\ NoBrowser

\* processAllBatches is called on a list of pending batches: with an
\* observer, or without one and with or without a system prompt.
InitRun ==
  /\ call = "processAllBatches"
  /\ pc = "run_entry"
  /\ request = NoRequest
  /\ images = <<>>
  /\ batches \in RunInputs
  /\ onProgress \in {Undefined, "callback"}
  /\ Idle
  /\ patientInfo = NoPatientInfo
  /\ files = <<>>
  /\ uploadPc = "none"
  /\ uploadRequest = NoUploadRequest
  /\ argument = Undefined
  /\ systemPrompt \in Prompts
  /\ onProgress # Undefined => systemPrompt = Undefined
  /\ peer = NoPeer
  /\ NoBrowser

\* createBatches is called on an image list.
InitCreate ==
  /\ call = "createBatches"
  /\ pc = "called"
  /\ request = NoRequest
  /\ images \in ImageLists
  /\ batches = <<>>
  /\ onProgress = Undefined
  /\ Idle
  /\ patientInfo = NoPatientInfo
  /\ files = <<>>
  /\ uploadPc = "none"
  /\ uploadRequest = NoUploadRequest
  /\ argument = Undefined
  /\ systemPrompt = Undefined
  /\ peer = NoPeer
  /\ NoBrowser

\* The aggregation helpers are called on a batch list.
InitAggregates ==
  /\ call = "aggregates"
  /\ pc = "called"
  /\ request = NoRequest
  /\ images = <<>>
  /\ \E n \in 0..MaxAggBatches, w \in BOOLEAN :
       \E f \in [1..n -> AggChoices] :
         batches = [k \in 1..n |-> AggBatch(k, f[k][1], f[k][2], w)]
  /\ onProgress = Undefined
  /\ Idle
  /\ patientInfo = NoPatientInfo
  /\ files = <<>>
  /\ uploadPc = "none"
  /\ uploadRequest = NoUploadRequest
  /\ argument = Undefined
  /\ systemPrompt = Undefined
  /\ peer = NoPeer
  /\ NoBrowser

\* A request arrives at POST /api/generate-report.
InitReport ==
  /\ call = "REPORT"
  /\ pc = "route_entry"
  /\ request \in Requests
  /\ images = <<>>
  /\ batches = <<>>
  /\ onProgress = Undefined
  /\ Idle
  /\ patientInfo \in {NoPatientInfo,
                      PatientInfo("object", "Jane Doe", "P-1", "2024-01-01", "CT")}
  /\ files = <<>>
  /\ uploadPc = "none"
  /\ uploadRequest = NoUploadRequest
  /\ argument = Undefined
  /\ systemPrompt = Undefined
  /\ peer = NoPeer
  /\ NoBrowser

\* The report compiler is called on a batch list.
InitCompile ==
  /\ call = "generateComprehensiveReport"
  /\ pc = "called"
  /\ request = NoRequest
  /\ images = <<>>
  /\ \E n \in 0..MaxReportBatches :
       \E f \in [1..n -> ReportChoices] :
         batches = [k \in 1..n |-> ReportBatch(k, f[k][1], f[k][2], f[k][3])]
  /\ onProgress = Undefined
  /\ Idle
  /\ patientInfo \in PatientInfos
  /\ files = <<>>
  /\ uploadPc = "none"
  /\ uploadRequest = NoUploadRequest
  /\ argument = Undefined
  /\ systemPrompt = Undefined
  /\ peer = NoPeer
  /\ NoBrowser

\* A request arrives at POST /api/upload: up to MaxUploadFiles files of any
\* kind, or MaxFilesPerUpload and MaxFilesPerUpload + 1 files, text files
\* after a first file that is an image or a text file.
InitUpload ==
  /\ call = "UPLOAD"
  /\ pc = "idle"
  /\ request = NoRequest
  /\ uploadPc = "route_entry"
  /\ uploadRequest \in UploadRequests
  /\ images = <<>>
  /\ batches = <<>>
  /\ onProgress = Undefined
  /\ Idle
  /\ patientInfo = NoPatientInfo
  /\ \/ /\ \/ \E n \in 0..MaxUploadFiles :
                \E f \in [1..n -> UploadChoices] : files = f
           \/ \E n \in {MaxFilesPerUpload, MaxFilesPerUpload + 1} :
                \E c \in {File("a.png", 4, Plain, "ok"), File("e.txt", 4, Plain, "ok")} :
                  files = [k \in 1..n |-> IF k = 1 THEN c
                                           ELSE File("e.txt", 4, Plain, "ok")]
        /\ peer = NoPeer
     \/ \E n \in 1..MaxPeerFiles, m \in 1..MaxPeerFiles :
          \E f \in [1..n -> ConcurrentChoices], g \in [1..m -> PeerChoices] :
            /\ files = f
            /\ peer = [files |-> g, fileIndex |-> 0]
  /\ argument = Undefined
  /\ systemPrompt = Undefined
  /\ NoBrowser

\* isDicomFile is called on a buffer.
InitIsDicomFile ==
  /\ call = "isDicomFile"
  /\ pc = "called"
  /\ request = NoRequest
  /\ images = <<>>
  /\ batches = <<>>
  /\ onProgress = Undefined
  /\ Idle
  /\ patientInfo = NoPatientInfo
  /\ files = <<>>
  /\ uploadPc = "none"
  /\ uploadRequest = NoUploadRequest
  /\ argument \in DicomInputs
  /\ systemPrompt = Undefined
  /\ peer = NoPeer
  /\ NoBrowser

\* validateMedicalImage is called on a file.
InitValidate ==
  /\ call = "validateMedicalImage"
  /\ pc = "called"
  /\ request = NoRequest
  /\ images = <<>>
  /\ batches = <<>>
  /\ onProgress = Undefined
  /\ Idle
  /\ patientInfo = NoPatientInfo
  /\ files = <<>>
  /\ uploadPc = "none"
  /\ uploadRequest = NoUploadRequest
  /\ argument \in ValidateInputs
  /\ systemPrompt = Undefined
  /\ peer = NoPeer
  /\ NoBrowser

\* A browser opens one of the pages, with nothing stored.
InitBrowser ==
  /\ call = "browser"
  /\ pc = "idle"
  /\ request = NoRequest
  /\ images = <<>>
  /\ batches = <<>>
  /\ onProgress = Undefined
  /\ Idle
  /\ patientInfo = NoPatientInfo
  /\ files = <<>>
  /\ uploadPc = "none"
  /\ uploadRequest = NoUploadRequest
  /\ argument = Undefined
  /\ systemPrompt = Undefined
  /\ peer = NoPeer
  /\ clock = 0
  /\ localStorage = Undefined
  /\ session = NoSession
  /\ stage \in {"config_page", "upload_page", "reports_page"}
  /\ configPage = IF stage = "config_page" THEN ConfigPageMounted ELSE Unmounted
  /\ pagePrompt = IF stage = "upload_page" THEN getDefaultSystemPrompt ELSE Undefined
  /\ uploadState = IF stage = "upload_page" THEN UploadStateMounted ELSE Unmounted
  /\ reportsPage = IF stage = "reports_page"
                   THEN ReportsPageMounted(sessionStorage) ELSE Unmounted

\* The upload page with uploaded images and nothing in flight, in one of
\* three sessions.  In the first the user has uploaded a DICOM file, whose
\* analysis the process-batch boundary refused because no image had a
\* payload.  In the second the user has uploaded one PNG file and its
\* analysis has completed: the report is stored and the timer of
\* router.push is pending.  In the third, after the refusal of the first,
\* the user has uploaded BATCH_SIZE + 1 PNG files.  All files were written
\* at time 0; systemPrompt is the prompt the last boundary read.
\* localStorage holds what the configuration page left there.
InitAnalysis ==
  /\ call = "browser"
  /\ pc = "idle"
  /\ request = NoRequest
  /\ images = <<>>
  /\ batches = <<>>
  /\ onProgress = Undefined
  /\ NothingInFlight
  /\ firstRun = NoFirstRun
  /\ patientInfo = NoPatientInfo
  /\ files = <<>>
  /\ uploadPc = "none"
  /\ uploadRequest = NoUploadRequest
  /\ argument = Undefined
  /\ peer = NoPeer
  /\ clock = 0
  /\ localStorage \in SavedPrompts
  /\ stage = "upload_page"
  /\ configPage = Unmounted
  /\ pagePrompt = getDefaultSystemPrompt
  /\ reportsPage = Unmounted
  /\ \/ /\ session = [NoSession EXCEPT !.uploads = 1, !.analyses = 1]
        /\ systemPrompt = getDefaultSystemPrompt
        /\ sessionStorage = NullElement
        /\ uploadState =
             AfterRefusal(AfterUpload(UploadStateMounted, <<DicomFile>>), 1)
        /\ writes = StoredWrites(<<DicomFile>>)
     \/ /\ session = [NoSession EXCEPT !.uploads = 1, !.analyses = 1,
                                        !.timers = 1]
        /\ systemPrompt = Undefined
        /\ sessionStorage = FirstReport(StoredImages(<<PngFile>>))
        /\ uploadState =
             AfterAnalysis(AfterUpload(UploadStateMounted, <<PngFile>>), 1)
        /\ writes = StoredWrites(<<PngFile>>)
     \/ /\ session = [NoSession EXCEPT !.uploads = 2, !.analyses = 1]
        /\ systemPrompt = getDefaultSystemPrompt
        /\ sessionStorage = NullElement
        /\ uploadState =
             AfterUpload(
               AfterRefusal(AfterUpload(UploadStateMounted, <<DicomFile>>), 1),
               [k \in 1..(BATCH_SIZE + 1) |-> PngFile])
        /\ writes = StoredWrites(<<DicomFile>>)
                      \o StoredWrites([k \in 1..(BATCH_SIZE + 1) |-> PngFile])

\* The server side: a request at one of the routes, or a direct call of
\* one of the library functions.
Init ==
  \/ InitUpload
  \/ InitIsDicomFile
  \/ InitValidate
  \/ InitPost
  \/ InitRun
  \/ InitCreate
  \/ InitAggregates
  \/ InitReport
  \/ InitCompile

Next ==
  \/ PostValidate
  \/ PostRespond
  \/ CallCreateBatches
  \/ CallAggregates
  \/ ReportValidate
  \/ ReportRespond
  \/ CallGenerateReport
  \/ CallIsDicomFile
  \/ CallValidateMedicalImage
  \/ UploadBegin
  \/ UploadFile
  \/ UploadFileStore
  \/ PeerUploadFile
  \/ UploadRespond
  \/ EnterRun
  \/ EmitBefore
  \/ Delay
  \/ ProcessBatchBegin
  \/ ProcessBatchSend
  \/ FetchSettles
  \/ AfterBatch
  \/ EmitAfter
  \/ CatchBlock
  \/ EmitFinal

Spec == Init /\ [][Next]_vars

\* The application in the browser: the handlers of the three pages and the
\* steps of the routes their requests reach.  The routes pass no observer
\* to processAllBatches, so the catch block of its loop is not a step here.
BrowserNext ==
  \/ ConfigEdit
  \/ SelectTemplate
  \/ saveConfiguration
  \/ SavedAlertExpires
  \/ resetToDefault
  \/ loadSavedPrompt
  \/ OpenUploadPage
  \/ setSystemPrompt
  \/ handleFiles
  \/ handleFilesDone
  \/ resetUpload
  \/ processImages
  \/ processImagesReport
  \/ processImagesDone
  \/ RouterPush
  \/ NewAnalysis
  \/ ReturnToDashboard
  \/ ReportReturnToDashboard
  \/ UploadBegin
  \/ UploadFile
  \/ UploadFileStore
  \/ UploadRespond
  \/ PostValidate
  \/ PostRespond
  \/ ReportValidate
  \/ ReportRespond
  \/ EnterRun
  \/ EmitBefore
  \/ Delay
  \/ ProcessBatchBegin
  \/ ProcessBatchSend
  \/ FetchSettles
  \/ AfterBatch
  \/ EmitAfter
  \/ EmitFinal

BrowserSpec == InitBrowser /\ [][BrowserNext]_vars

\* The upload and reports pages after the first upload: their handlers
\* and the steps of the three routes.  No button of these pages opens the
\* configuration page.
AnalysisNext ==
  \/ setSystemPrompt
  \/ handleFiles
  \/ handleFilesDone
  \/ resetUpload
  \/ processImages
  \/ processImagesReport
  \/ processImagesDone
  \/ RouterPush
  \/ NewAnalysis
  \/ ReportReturnToDashboard
  \/ UploadBegin
  \/ UploadFile
  \/ UploadFileStore
  \/ UploadRespond
  \/ PostValidate
  \/ PostRespond
  \/ ReportValidate
  \/ ReportRespond
  \/ EnterRun
  \/ EmitBefore
  \/ Delay
  \/ ProcessBatchBegin
  \/ ProcessBatchSend
  \/ FetchSettles
  \/ AfterBatch
  \/ EmitAfter
  \/ EmitFinal

AnalysisSpec == InitAnalysis /\ [][AnalysisNext]_vars

\* A call of processAllBatches on its own: the steps of the run, each of
\* which is taken once it can be -- the event loop resumes the async
\* function, the timer of delay(1000) fires, and every AI call settles.
RunNext ==
  \/ EnterRun
  \/ EmitBefore
  \/ Delay
  \/ ProcessBatchBegin
  \/ ProcessBatchSend
  \/ FetchSettles
  \/ AfterBatch
  \/ EmitAfter
  \/ CatchBlock
  \/ EmitFinal

LiveSpec == InitRun /\ [][RunNext]_vars /\ WF_vars(RunNext)

(***************************************************************************)
(* Properties.                                                             *)
(***************************************************************************)
\* The behaviour is a run of the batch runner, called directly or by the route.
InRun == call \in {"processAllBatches", "POST", "REPORT"}

\* processAllBatches has returned or rejected.
RunOver == pc \in {"returned", "rejected", "responded"}

Terminal(st) == st \in {"completed", "failed"}

Last(s) == s[Len(s)]

CeilDiv(n, d) == (n + d - 1) \div d

RECURSIVE ConcatImages(_)
ConcatImages(bs) ==
  IF bs = <<>> THEN <<>> ELSE Head(bs).images \o ConcatImages(Tail(bs))

\* C1: for an image list of length N, createBatches returns ceil(N/20)
\* batches, all pending, each of 20 images except the last, which holds
\* N mod 20 (20 when that is 0); the batches' image lists concatenated in
\* batch order are the input list.
C1_CreateBatchesPartition ==
  (call = "createBatches" /\ pc = "returned") =>
    LET N == Len(images)
        n == Len(batches)
    IN /\ n = CeilDiv(N, 20)
       /\ \A k \in 1..n : batches[k].status = "pending"
       /\ \A k \in 1..(n - 1) : Len(batches[k].images) = 20
       /\ n > 0 => Len(batches[n].images) = (IF N % 20 = 0 THEN 20 ELSE N % 20)
       /\ ConcatImages(batches) = images

\* 41 images were split into batches of 20, 20 and 1.
C1_Witness ==
  /\ call = "createBatches"
  /\ pc = "returned"
  /\ Len(images) = 41
  /\ Len(batches) = 3
  /\ Len(batches[3].images) = 1

\* The AI call of batch k (1-based) has settled with an error.
AICallFailed(k) ==
  \E n \in 1..Len(fetchResults) :
    fetchResults[n].batch = k /\ analyzeImages(fetchResults[n].outcome).threw

\* The AI call of batch k has settled with a response.
AICallReturned(k) ==
  \E n \in 1..Len(fetchResults) :
    fetchResults[n].batch = k /\ ~analyzeImages(fetchResults[n].outcome).threw

\* C2: once a run is over, every batch after one whose AI call failed has
\* been attempted and ended completed or failed by its own AI outcome.
C2_FailureDoesNotStopLaterBatches ==
  (InRun /\ RunOver) =>
    \A k \in 1..Len(batches) :
      AICallFailed(k) =>
        \A j \in (k + 1)..Len(batches) :
          batches[j].status = (IF AICallReturned(j) THEN "completed" ELSE "failed")

\* C3: during a run at most one batch is processing and at most one AI
\* request is outstanding, the outstanding request is that of the processing
\* batch, a batch leaves pending only after its predecessor is completed or
\* failed, and requests go out in list order.
C3_OneBatchAtATime ==
  InRun =>
    /\ Cardinality({k \in 1..Len(batches) : batches[k].status = "processing"}) <= 1
    /\ Len(fetchCalls) - Len(fetchResults) \in {0, 1}
    /\ Len(fetchCalls) > Len(fetchResults) =>
         batches[Last(fetchCalls).batch].status = "processing"
    /\ \A k \in 1..(Len(batches) - 1) :
         batches[k + 1].status # "pending" => Terminal(batches[k].status)
    /\ \A n \in 2..Len(fetchCalls) : fetchCalls[n - 1].batch < fetchCalls[n].batch

\* The request of the second batch is outstanding after the first failed.
C3_Witness ==
  /\ InRun
  /\ Len(batches) >= 2
  /\ batches[1].status = "failed"
  /\ batches[2].status = "processing"
  /\ Len(fetchCalls) > Len(fetchResults)

StatusStep(a, b) ==
  \/ a = b
  \/ a = "pending" /\ b = "processing"
  \/ a = "processing" /\ Terminal(b)

\* C4: in a run every batch's status moves only along pending -> processing
\* -> completed or failed; a completed or failed batch keeps its status.
C4_StatusLifecycle ==
  [][(InRun /\ Len(batches') = Len(batches)) =>
       \A k \in 1..Len(batches) : StatusStep(batches[k].status, batches'[k].status)]_vars

\* The aggregation helpers have been applied to the batch list bs.
Aggregated == aggregate # NoAggregate

AggregatedList == IF call = "POST" THEN Returned ELSE batches

\* C5: the overall status is completed when every batch is completed or
\* failed and one is completed, failed when the list is non-empty and every
\* batch failed, and processing otherwise (the empty list included).
C5_OverallStatus ==
  Aggregated =>
    LET bs == AggregatedList
        allDone == \A k \in 1..Len(bs) : Terminal(bs[k].status)
        oneCompleted == \E k \in 1..Len(bs) : bs[k].status = "completed"
        allFailed == \A k \in 1..Len(bs) : bs[k].status = "failed"
    IN aggregate.status.status =
         (IF allDone /\ oneCompleted THEN "completed"
          ELSE IF Len(bs) > 0 /\ allFailed THEN "failed"
          ELSE "processing")

\* C6 as claimed: successful + failed <= total, with equality when every
\* batch is completed or failed.
C6_CountsAsClaimed ==
  Aggregated =>
    LET bs == AggregatedList
        sum == Len(aggregate.successful) + Len(aggregate.failed)
    IN /\ sum <= Len(bs)
       /\ (\A k \in 1..Len(bs) : Terminal(bs[k].status)) => sum = Len(bs)

\* C6, amended: successful + failed <= total, with equality when every
\* batch is failed or is completed with a non-empty stored response.
C6_Counts ==
  Aggregated =>
    LET bs == AggregatedList
        sum == Len(aggregate.successful) + Len(aggregate.failed)
    IN /\ sum <= Len(bs)
       /\ (\A k \in 1..Len(bs) :
             \/ bs[k].status = "failed"
             \/ bs[k].status = "completed" /\ bs[k].aiResponse \notin {Undefined, ""})
          => sum = Len(bs)

\* Three batches, two completed with a response and one failed, one of the
\* failed ones carrying a stored response as well.
C6_Witness ==
  /\ call = "aggregates"
  /\ Aggregated
  /\ Len(batches) = 3
  /\ Len(aggregate.successful) = 2
  /\ Len(aggregate.failed) = 1
  /\ \E k \in 1..3 : batches[k].status = "failed" /\ Truthy(batches[k].aiResponse)

\* b is a smaller percentage than a.
Decreases(a, b) == a.kind = "number" /\ b.kind = "number" /\ b.val < a.val

\* C7: every snapshot of a run has progress = floor(processedImages /
\* totalImages * 100), and progress never decreases from one snapshot to
\* the next, the final one included.
C7_ProgressFloorAndMonotone ==
  InRun =>
    /\ \A n \in 1..Len(snapshots) :
         snapshots[n].progress =
           FloorPercent(snapshots[n].processedImages, snapshots[n].totalImages)
    /\ \A n \in 1..(Len(snapshots) - 1) :
         ~Decreases(snapshots[n].progress, snapshots[n + 1].progress)

\* p is a defined integer percentage.
IsPercentage(p) == p.kind = "number" /\ p.val \in 0..100

\* C8: with a total image count of zero the progress of
\* calculateOverallProgress and of every snapshot is a defined integer
\* between 0 and 100.
C8_ZeroTotalGuarded ==
  /\ (Aggregated /\ aggregate.status.totalImages = 0) =>
       IsPercentage(aggregate.status.progress)
  /\ \A n \in 1..Len(snapshots) :
       snapshots[n].totalImages = 0 => IsPercentage(snapshots[n].progress)

\* The reply kinds of a settled AI request.
NetworkFailure(o) == o.rejected
NonSuccessStatus(o) == ~o.rejected /\ ~o.ok
\* 200 with a body that is not JSON or is the JSON value null
UnreadableReply(o) == ~o.rejected /\ o.ok /\ o.body \in {"invalid", "null"}
\* 200 with a JSON body without choices[0].message.content, or with ''
EmptyReply(o) ==
  ~o.rejected /\ o.ok /\ o.body \notin {"invalid", "null"}
    /\ (o.body # "choices" \/ o.content = "")

\* C9 as claimed: a network failure, a non-success status, an empty and a
\* malformed reply each leave the batch failed with an error message, and
\* the run goes on to the batches after it.
C9_EveryAIErrorFailsTheBatch ==
  InRun =>
    \A n \in 1..Len(fetchResults) :
      LET o == fetchResults[n].outcome
          k == fetchResults[n].batch
      IN (NetworkFailure(o) \/ NonSuccessStatus(o) \/ UnreadableReply(o)
            \/ EmptyReply(o)) =>
           /\ batches[k].status = "failed"
           /\ Truthy(batches[k].error)
           /\ RunOver => \A j \in (k + 1)..Len(batches) : batches[j].status # "pending"

\* The message analyzeImages throws for a failed request.
AIErrorMessage(o) ==
  "AI analysis failed: " \o
    (IF NetworkFailure(o) THEN "fetch failed"
     ELSE IF NonSuccessStatus(o) THEN "AI API request failed: " \o o.status
     ELSE IF o.body = "invalid" THEN "Unexpected token in JSON"
     ELSE "Cannot read properties of null (reading 'choices')")

\* The response stored for a reply that carries the text t.
StoredResponse(t) ==
  "{\"findings\":\"" \o t \o "\",\"recommendations\":\"Please consult with a "
    \o "qualified radiologist for interpretation.\",\"confidence\":0.8,"
    \o "\"keyObservations\":[]}"

\* C9, amended: a network failure, a non-success status and a reply that is
\* not JSON or is null make the AI call throw; processBatch catches the
\* error and returns with the batch failed and the message 'AI analysis
\* failed: ...' on it and no stored response, the batch stays failed with a
\* message, the error never rejects the run and the loop moves past the
\* batch.  An empty reply is no error: the batch is completed with the
\* placeholder findings stored.
C9_AIErrorRecorded ==
  InRun =>
    /\ pc = "rejected" => thrown = ObserverError
    /\ \A n \in 1..Len(fetchResults) :
         LET o == fetchResults[n].outcome
             k == fetchResults[n].batch
             failure == NetworkFailure(o) \/ NonSuccessStatus(o) \/ UnreadableReply(o)
         IN /\ failure => batches[k].status = "failed" /\ Truthy(batches[k].error)
            /\ RunOver => k <= i
            /\ (pc = "pb_returned" /\ k = i + 1) =>
                 /\ n = Len(fetchResults)
                 /\ failure =>
                      /\ batches[k].status = "failed"
                      /\ batches[k].error = AIErrorMessage(o)
                      /\ batches[k].aiResponse = Undefined
                 /\ ~failure =>
                      /\ batches[k].status = "completed"
                      /\ batches[k].error = Undefined
                      /\ batches[k].aiResponse =
                           StoredResponse(IF EmptyReply(o)
                                          THEN "No specific findings extracted from response."
                                          ELSE o.content)

\* A run has returned in which the first batch met a non-success status
\* and the second an empty reply.
C9_Witness ==
  /\ InRun
  /\ pc = "returned"
  /\ Len(fetchResults) = 2
  /\ NonSuccessStatus(fetchResults[1].outcome)
  /\ EmptyReply(fetchResults[2].outcome)
  /\ batches[1].status = "failed"
  /\ batches[2].status = "completed"

\* The submitted list is missing, no list, empty, or holds no image with a
\* non-empty payload.
NothingToProcess(r) ==
  \/ r.body # "object"
  \/ r.images.kind # "array"
  \/ ~\E k \in 1..Len(r.images.items) :
        ~IsNull(r.images.items[k]) /\ Truthy(r.images.items[k].base64Data)

PayloadBearing(items) ==
  SelectSeq(items, LAMBDA e : ~IsNull(e) /\ Truthy(e.base64Data))

\* C10: the route answers 400 without creating a batch or calling the AI
\* whenever there is nothing to process, and otherwise builds its batches
\* from the payload-bearing images in submitted order.
C10_RouteValidation ==
  (call = "POST" /\ pc # "route_entry") =>
    IF NothingToProcess(request)
    THEN /\ response # NoResponse
         /\ response.status = 400
         /\ batches = <<>>
         /\ fetchCalls = <<>>
    ELSE ConcatImages(batches) = PayloadBearing(request.images.items)

\* The process-batch route accepts the request: PostValidate goes on to
\* the run instead of answering with an error.
PostAccepts(r) ==
  /\ r.body = "object"
  /\ ~NoImagesProvided(r.images)
  /\ \A k \in 1..Len(r.images.items) : ~IsNull(r.images.items[k])
  /\ Len(ValidImages(r.images.items)) > 0

\* C11: on every submitted image list the report-generation route rejects
\* exactly when the process-batch route rejects, and when it accepts it
\* builds its batches from the same sub-list of images.
C11_SameImageListContract ==
  (call = "REPORT" /\ pc # "route_entry") =>
    /\ (batches # <<>>) <=> PostAccepts(request)
    /\ batches # <<>> => ConcatImages(batches) = ValidImages(request.images.items)

\* The report route has answered with a compiled report.
Reported == call = "REPORT" /\ pc = "responded" /\ response.status = 200

\* The text of a findings section heading.
HeadingText(number, count) ==
  "### Batch " \o ToString(number) \o " Analysis (" \o ToString(count) \o " images)"

Headings ==
  {HeadingText(number, count) :
     number \in 1..(MaxReportBatches + 1), count \in 0..BATCH_SIZE}

IsHeading(line) == line \in Headings

\* The positions of the report's lines that satisfy a test, in order.
Positions(text, Test(_)) ==
  SelectSeq([k \in 1..Len(text) |-> k], LAMBDA k : Test(text[k]))

\* The completed batches with a stored response, and the failed ones.
WithResponse(bs) ==
  SelectSeq(bs, LAMBDA b : b.status = "completed" /\ b.aiResponse \notin {Undefined, ""})
Failures(bs) == SelectSeq(bs, LAMBDA b : b.status = "failed")

IsErrorLine(line) ==
  \E k \in 1..Len(batches) :
    line = "Batch: " \o (IF batches[k].error \in {Undefined, ""}
                         THEN "Unknown error" ELSE batches[k].error)

\* The findings text stored in a response of a run.
FindingsOf(batch) ==
  IF batch.aiResponse = StoredResponse("Findings text") THEN "Findings text"
  ELSE "No specific findings extracted from response."

\* The report of a batch list has one findings section per completed batch
\* with a stored response, in batch order and numbered from 1, one error
\* line per failed batch under a heading that is there only when a batch
\* failed, and a summary with those two counts and the image total.
ReportMatches(text, bs) ==
  LET sections == Positions(text, IsHeading)
      good == WithResponse(bs)
      bad == Failures(bs)
      errorLines == Positions(text, IsErrorLine)
      errorHeads == Positions(text, LAMBDA l : l = "## PROCESSING ERRORS")
  IN /\ Len(sections) = Len(good)
     /\ \A k \in 1..Len(good) :
          /\ text[sections[k]] = HeadingText(k, Len(good[k].images))
          /\ text[sections[k] + 1] = "**Findings:** " \o FindingsOf(good[k])
     /\ Len(errorLines) = Len(bad)
     /\ \A k \in 1..Len(bad) :
          /\ text[errorLines[k]] = "Batch: " \o bad[k].error
          /\ errorLines[k] = errorHeads[1] + k
     /\ Len(errorHeads) = (IF Len(bad) > 0 THEN 1 ELSE 0)
     /\ \E k \in 1..Len(text) : text[k] = "Successful Batches: " \o ToString(Len(good))
     /\ \E k \in 1..Len(text) : text[k] = "Failed Batches: " \o ToString(Len(bad))
     /\ \E k \in 1..Len(text) :
          text[k] = "Total Images Analyzed: " \o ToString(Len(ConcatImages(bs)))

\* 45 images with payloads were posted and only the second AI call failed.
FortyFiveSecondFails ==
  /\ request.images.items = [id \in 1..45 |-> [id |-> id, base64Data |-> "b64"]]
  /\ Len(fetchResults) = 3
  /\ \A n \in 1..3 :
       (n = 2) <=> (NetworkFailure(fetchResults[n].outcome)
                     \/ NonSuccessStatus(fetchResults[n].outcome)
                     \/ UnreadableReply(fetchResults[n].outcome))

\* C12: the report compiled for the batch list a run returned has exactly
\* one findings section per completed batch with a stored response, in
\* batch order and numbered 1..k, exactly one processing-errors line per
\* failed batch (no such block without a failed batch), and a summary whose
\* counts are those two numbers and whose image total is the sum of the
\* batches' image counts; 45 payload images with the second AI call failing
\* give batches of 20, 20 and 5 images, 2 successful, 1 failed, overall
\* status 'completed', two findings sections and one processing-errors line.
C12_ReportSections ==
  Reported =>
    /\ ReportMatches(reportText, response.batches)
    /\ response.statistics.successfulBatches = Len(WithResponse(response.batches))
    /\ response.statistics.failedBatches = Len(Failures(response.batches))
    /\ response.statistics.totalImages = Len(ConcatImages(response.batches))
    /\ FortyFiveSecondFails =>
         /\ [k \in 1..Len(batches) |-> Len(batches[k].images)] = <<20, 20, 5>>
         /\ response.statistics.successfulBatches = 2
         /\ response.statistics.failedBatches = 1
         /\ calculateOverallProgress(response.batches).status = "completed"
         /\ Len(Positions(reportText, IsHeading)) = 2
         /\ Len(Positions(reportText, IsErrorLine)) = 1

\* The report route has answered the 45-image request whose second AI call
\* failed.
C12_Witness ==
  /\ Reported
  /\ FortyFiveSecondFails
  /\ reportText # <<>>

\* generateComprehensiveReport has returned its text.
Compiled == (call = "generateComprehensiveReport" /\ pc = "returned") \/ Reported

\* A line of a findings section or of the processing-errors block.
IsSectionLine(line) ==
  \/ IsHeading(line)
  \/ IsErrorLine(line)
  \/ line \in {"## CONSOLIDATED FINDINGS", "## PROCESSING ERRORS",
               "**Findings:** Findings text",
               "**Findings:** No specific findings extracted from response.",
               "Error parsing AI response: SyntaxError: Unexpected token in JSON",
               "Error parsing AI response: TypeError: Cannot read properties of null (reading 'findings')"}

\* C13: whatever the batch list and the patient info, the report holds the
\* 'IMPORTANT DISCLAIMER' heading followed by its fixed sentence, once, and
\* every line of a findings section or of the processing-errors block
\* comes before it.
C13_DisclaimerAlways ==
  Compiled =>
    LET heads == Positions(reportText, LAMBDA l : l = "## IMPORTANT DISCLAIMER")
    IN /\ Len(heads) = 1
       /\ heads[1] < Len(reportText)
       /\ reportText[heads[1] + 1] =
            "This report was generated using AI-assisted analysis and should always be reviewed by qualified medical professionals."
       /\ \A k \in 1..Len(reportText) :
            IsSectionLine(reportText[k]) => k < heads[1]

\* The compiler has returned the report of a list of two failed batches
\* without patient info, errors block and disclaimer included.
C13_Witness ==
  /\ call = "generateComprehensiveReport"
  /\ pc = "returned"
  /\ patientInfo = NoPatientInfo
  /\ Len(batches) = 2
  /\ \A k \in 1..2 : batches[k].status = "failed"
  /\ \E k \in 1..Len(reportText) : reportText[k] = "## PROCESSING ERRORS"
  /\ \E k \in 1..Len(reportText) : reportText[k] = "## IMPORTANT DISCLAIMER"

\* The stored response of the batch is text JSON.parse rejects.
Unparsable(batch) == batch.aiResponse = "not json"

\* C14: for a completed batch whose stored response does not parse, the
\* report has the batch's section heading directly followed by the inline
\* line 'Error parsing AI response: ...' and no findings line; after it
\* come the section of every later successful batch, the processing-errors
\* block with one line per failed batch, and the disclaimer.
C14_UnparsableResponseInline ==
  Compiled =>
    LET good == WithResponse(batches)
        bad == Failures(batches)
        text == reportText
    IN \A k \in 1..Len(good) :
         Unparsable(good[k]) =>
           \E pos \in 1..(Len(text) - 1) :
             /\ text[pos] = HeadingText(k, Len(good[k].images))
             /\ text[pos + 1] =
                  "Error parsing AI response: SyntaxError: Unexpected token in JSON"
             /\ \A j \in (k + 1)..Len(good) :
                  \E later \in (pos + 2)..Len(text) :
                    text[later] = HeadingText(j, Len(good[j].images))
             /\ bad # <<>> =>
                  \E head \in (pos + 2)..Len(text) :
                    /\ text[head] = "## PROCESSING ERRORS"
                    /\ \A n \in 1..Len(bad) : IsErrorLine(text[head + n])
             /\ \E d \in (pos + 2)..Len(text) : text[d] = "## IMPORTANT DISCLAIMER"

\* The compiler has returned the report of a completed batch with an
\* unparsable response, a completed batch with a valid one and a failed
\* batch.
C14_Witness ==
  /\ call = "generateComprehensiveReport"
  /\ pc = "returned"
  /\ Len(batches) = 3
  /\ batches[1].status = "completed" /\ Unparsable(batches[1])
  /\ batches[2].status = "completed"
  /\ batches[2].aiResponse = StoredResponse("Findings text")
  /\ batches[3].status = "failed"
  /\ \E k \in 1..Len(reportText) :
       reportText[k] = "Error parsing AI response: SyntaxError: Unexpected token in JSON"

\* A route has answered after a run in which every batch failed.
AllBatchesFailed ==
  /\ call \in {"POST", "REPORT"}
  /\ pc = "responded"
  /\ batches # <<>>
  /\ \A k \in 1..Len(batches) : batches[k].status = "failed"

\* C15: when every batch of a run failed, both routes still answer 200 and
\* the payload carries the failure: its status field (the overall status
\* of process-batch, the report status of generate-report) is 'failed',
\* the failed-batch count is the batch count and the success rate is 0.
C15_FullFailureInPayload ==
  AllBatchesFailed =>
    /\ response.status = 200
    /\ call = "POST" =>
         /\ response.overall.status = "failed"
         /\ response.failedBatches = response.totalBatches
         /\ response.successfulBatches = 0
    /\ call = "REPORT" =>
         /\ response.report.status = "failed"
         /\ response.statistics.failedBatches = response.statistics.totalBatches
         /\ response.statistics.successRate = 0

\* The upload route has answered a readable multipart request.
Uploaded == uploadPc = "responded" /\ uploadRequest.body = "formData"

\* The 200 uploadResponse with the image list and the summary.
IsSummary(r) == r.status = 200 /\ "images" \in DOMAIN r /\ "summary" \in DOMAIN r

\* C16 as claimed: the call is rejected, without an image list, only for
\* zero files or more than 200 files; every call with 1 to 200 files is
\* processed file by file and answered with the summary and the per-file
\* errors.
C16_RejectsOnlyEmptyOrOverCap ==
  Uploaded =>
    IF Len(files) = 0 \/ Len(files) > 200
    THEN uploadResponse.status = 400 /\ "images" \notin DOMAIN uploadResponse
    ELSE /\ IsSummary(uploadResponse)
         /\ fileIndex = Len(files)
         /\ errors # <<>> => uploadResponse.errors = errors

\* The file can be stored: its extension and size pass the validator and
\* neither reading nor writing it fails.
AcceptedNames ==
  {name \in {f.name : f \in UploadChoices \cup ConcurrentChoices} :
     \E ext \in {".dcm", ".dicom", ".png", ".jpg", ".jpeg", ".bmp", ".tiff"} :
       endsWith(toLowerCase(name), ext)}

Storable(file) ==
  /\ file.name \in AcceptedNames
  /\ file.size <= 104857600
  /\ file.io \notin {"readFails", "writeFails"}

\* C16, amended: the upload route rejects the whole call, with an error
\* uploadResponse that carries no image list, when zero files or more than 200
\* files are given (400), when the upload directory cannot be created
\* (500), and when none of the 1 to 200 files could be stored (400, with
\* the per-file errors); in every other case it has handled every file and
\* answers 200 with the images, the summary and the per-file errors.
C16_UploadRejections ==
  Uploaded =>
    LET none == \A k \in 1..Len(files) : ~Storable(files[k])
    IN IF Len(files) = 0 \/ Len(files) > 200
       THEN uploadResponse.status = 400 /\ DOMAIN uploadResponse = {"status", "error"}
                                  /\ fileIndex = 0
       ELSE IF uploadRequest.uploadDir # "ok"
       THEN uploadResponse.status = 500 /\ DOMAIN uploadResponse = {"status", "error"}
                                  /\ fileIndex = 0
       ELSE IF none
       THEN /\ uploadResponse.status = 400
            /\ "images" \notin DOMAIN uploadResponse
            /\ uploadResponse.errors = errors
            /\ Len(errors) = Len(files)
       ELSE /\ IsSummary(uploadResponse)
            /\ fileIndex = Len(files)
            /\ uploadResponse.images = uploadedImages
            /\ Len(uploadResponse.images) > 0
            /\ ("errors" \in DOMAIN uploadResponse) <=> (errors # <<>>)
            /\ errors # <<>> => uploadResponse.errors = errors

\* An upload of three files was answered with the summary: one image and
\* two per-file errors.
C16_Witness ==
  /\ Uploaded
  /\ Len(files) = 3
  /\ IsSummary(uploadResponse)
  /\ Len(uploadResponse.images) = 1
  /\ Len(uploadResponse.errors) = 2

\* The file loop of an upload has started.
InUpload == uploadPc \in {"file_loop", "file_written", "responded"}

\* The 0-based positions, among the files handled so far, of the files that
\* can be stored and of those that cannot, in submitted order.
Handled(Test(_)) ==
  SelectSeq([k \in 1..fileIndex |-> k - 1], LAMBDA n : Test(files[n + 1]))

IsErrorOf(entry, file) ==
  entry \in {"File " \o file.name \o ": " \o reason :
               reason \in {"Invalid file type. Supported formats: DICOM, PNG, JPG, JPEG, BMP, TIFF",
                           "File size too large. Maximum size is 100MB per file",
                           "Processing error"}}

\* C17: in an upload every file handled so far is in exactly one of the
\* two lists: the files that fail validation or processing have one error
\* entry each, in submitted order, the others one image each, in submitted
\* order, and a failure stops no later file; in the summary successful +
\* failed = totalFiles and dicomFiles + regularImages = successful.
C17_FilesIsolated ==
  InUpload =>
    LET stored == Handled(Storable)
        failed == Handled(LAMBDA f : ~Storable(f))
    IN /\ Len(uploadedImages) = Len(stored)
       /\ \A k \in 1..Len(stored) :
            /\ uploadedImages[k].id = stored[k]
            /\ uploadedImages[k].originalName = files[stored[k] + 1].name
       /\ Len(errors) = Len(failed)
       /\ \A k \in 1..Len(failed) : IsErrorOf(errors[k], files[failed[k] + 1])
       /\ Len(uploadedImages) + Len(errors) = fileIndex
       /\ (uploadPc = "responded" /\ IsSummary(uploadResponse)) =>
            /\ fileIndex = Len(files)
            /\ uploadResponse.summary.totalFiles = Len(files)
            /\ uploadResponse.summary.successful + uploadResponse.summary.failed
                 = uploadResponse.summary.totalFiles
            /\ uploadResponse.summary.dicomFiles + uploadResponse.summary.regularImages
                 = uploadResponse.summary.successful
            /\ uploadResponse.summary.successful = Len(uploadResponse.images)
            /\ uploadResponse.summary.failed = Len(errors)

\* An upload of a good file, a failing file and another good file was
\* answered: images 0 and 2, one error.
C17_Witness ==
  /\ Uploaded
  /\ IsSummary(uploadResponse)
  /\ Len(files) = 3
  /\ ~Storable(files[2])
  /\ [k \in 1..Len(uploadResponse.images) |-> uploadResponse.images[k].id] = <<0, 2>>
  /\ Len(errors) = 1

\* The content has at least 132 bytes and 'D','I','C','M' at offsets 128-131.
HasMagic(bytes) ==
  /\ Len(bytes) >= 132
  /\ bytes[129] = 68 /\ bytes[130] = 73 /\ bytes[131] = 67 /\ bytes[132] = 77

\* The uploaded names with a DICOM extension.
DicomNames ==
  {name \in AcceptedNames :
     \E ext \in {".dcm", ".dicom"} : endsWith(toLowerCase(name), ext)}

\* C18: an uploaded file whose content carries the DICOM magic takes the
\* DICOM branch whatever its extension: its image has the DICOM flag set,
\* the metadata stub and no base64 payload, and keeps the file type of its
\* extension; no image of an upload has both a base64 payload and the
\* DICOM flag.
C18_SniffDecidesBranch ==
  InUpload =>
    \A k \in 1..Len(uploadedImages) :
      LET img == uploadedImages[k]
          file == files[img.id + 1]
      IN /\ HasMagic(file.bytes) =>
              /\ img.isDicom
              /\ img.base64Data = Undefined
              /\ img.metadata # NoMetadata
              /\ img.metadata.patientId = "AUTO-GENERATED"
         /\ img.base64Data # Undefined => ~img.isDicom
         /\ img.isDicom <=> (HasMagic(file.bytes) \/ file.name \in DicomNames)

\* The upload returned the image of 'b.png', whose content carries the
\* magic: typed PNG, flagged DICOM, without payload.
C18_Witness ==
  /\ Uploaded
  /\ IsSummary(uploadResponse)
  /\ \E k \in 1..Len(uploadResponse.images) :
       /\ uploadResponse.images[k].originalName = "b.png"
       /\ uploadResponse.images[k].fileType = "PNG"
       /\ uploadResponse.images[k].isDicom
       /\ uploadResponse.images[k].base64Data = Undefined

\* C19: isDicomFile returns true exactly when its buffer has at least 132
\* bytes and the bytes at offsets 128, 129, 130 and 131 are 'D', 'I', 'C'
\* and 'M'; for every other argument (a shorter buffer, other bytes there,
\* or null) it returns false, and it never throws.
C19_IsDicomFileMagic ==
  (call = "isDicomFile" /\ pc = "returned") =>
    /\ ~result.threw
    /\ result.value \in BOOLEAN
    /\ result.value <=> (argument.kind = "buffer" /\ HasMagic(argument.bytes))

\* isDicomFile has returned true for a buffer of exactly 132 bytes.
C19_Witness ==
  /\ call = "isDicomFile"
  /\ pc = "returned"
  /\ Len(argument.bytes) = 132
  /\ result.value = TRUE

\* The tag the claim gives to a lower-cased name, or "none" when no
\* extension of the claim's list ends it.
ClaimedTag(name) ==
  IF endsWith(name, ".dcm") \/ endsWith(name, ".dicom") THEN "DICOM"
  ELSE IF endsWith(name, ".jpg") \/ endsWith(name, ".jpeg") THEN "JPEG"
  ELSE IF endsWith(name, ".png") THEN "PNG"
  ELSE IF endsWith(name, ".bmp") THEN "BMP"
  ELSE IF endsWith(name, ".tiff") \/ endsWith(name, ".tif") THEN "TIFF"
  ELSE "none"

\* C20: validateMedicalImage accepts a file exactly when its name, lower-
\* cased, ends in .dcm, .dicom, .png, .jpg, .jpeg, .bmp, .tiff or .tif and
\* its size is at most 104857600 bytes; an accepted file carries the tag of
\* its extension, a rejected one a reason and the tag PNG.
C20_ValidatorAllowList ==
  (call = "validateMedicalImage" /\ pc = "returned") =>
    LET tag == ClaimedTag(toLowerCase(argument.name))
        verdict == result.value
    IN /\ verdict.isValid <=> (tag # "none" /\ argument.size <= 104857600)
       /\ verdict.isValid => verdict.fileType = tag /\ verdict.error = Undefined
       /\ ~verdict.isValid =>
            verdict.fileType = "PNG" /\ verdict.error \notin {Undefined, ""}

(***************************************************************************)
(* The system prompt of a run.                                             *)
(***************************************************************************)
\* The system prompt the caller supplied: the systemPrompt member of the
\* posted body at a route, the argument of processAllBatches otherwise.
Supplied == IF call \in {"POST", "REPORT"} THEN request.systemPrompt ELSE systemPrompt

\* The system messages of all AI requests of the run so far are msg.
EveryCallSends(content) ==
  \A n \in 1..Len(fetchCalls) :
    fetchCalls[n].system = [role |-> "system", content |-> content]

\* C21 as claimed: every AI request of a run carries the supplied system
\* prompt as its system message whenever the caller supplied one, and the
\* built-in default only when the caller supplied none.
C21_DefaultOnlyWhenNoneSupplied ==
  InRun =>
    EveryCallSends(IF Supplied # Undefined THEN Supplied ELSE DEFAULT_SYSTEM_PROMPT)

\* C21, amended: every AI request of a run carries the supplied system
\* prompt as its system message when the caller supplied a non-empty one,
\* in place of the built-in default; it carries the built-in default when
\* the caller supplied no prompt or the empty string.
C21_SystemPromptSent ==
  InRun =>
    EveryCallSends(IF Supplied \notin {Undefined, ""}
                   THEN Supplied ELSE DEFAULT_SYSTEM_PROMPT)

\* A request to the process-batch boundary with a prompt of its own has
\* sent both of its batches to the AI endpoint under that prompt.
C21_Witness ==
  /\ call = "POST"
  /\ request.systemPrompt = CustomPrompt
  /\ Len(fetchCalls) = 2
  /\ fetchCalls[1].batch = 1 /\ fetchCalls[2].batch = 2
  /\ EveryCallSends(CustomPrompt)

(***************************************************************************)
(* The browser session.                                                    *)
(***************************************************************************)
\* The user of the browser has started an analysis from the upload page.
AnalysisStarted == stage # "none" /\ session.analyses > 0

\* C22: once a prompt has been saved on the configuration page and not
\* been reset (localStorage holds it), every AI request of an analysis
\* started from the upload page carries the saved prompt as its system
\* message.
C22_SavedPromptSent ==
  (AnalysisStarted /\ Truthy(localStorage)) => EveryCallSends(localStorage)

(***************************************************************************)
(* Snapshots, pauses and AI calls of a run.                                *)
(***************************************************************************)
\* processAllBatches runs with an observer.
Observed == call = "processAllBatches" /\ onProgress # Undefined

\* The status transitions the batches have made so far: one for having
\* left 'pending', one for having reached 'completed' or 'failed'.
RECURSIVE TransitionsOf(_)
TransitionsOf(bs) ==
  IF bs = <<>> THEN 0
  ELSE (IF Head(bs).status # "pending" THEN 1 ELSE 0)
       + (IF Terminal(Head(bs).status) THEN 1 ELSE 0)
       + TransitionsOf(Tail(bs))

\* C23: with an observer, whenever the loop of processAllBatches is between
\* two batches one snapshot has been emitted per batch status transition
\* made so far, and when the run is over exactly one more has been emitted:
\* 2n + 1 snapshots for n batches, the last with progress 100 and status
\* 'completed', whether or not a batch failed.
C23_SnapshotPerTransition ==
  Observed =>
    /\ pc = "loop" => Len(snapshots) = TransitionsOf(batches)
    /\ pc \in {"returned", "rejected"} =>
         /\ Len(snapshots) = 2 * Len(batches) + 1
         /\ Last(snapshots).progress = Num(100)
         /\ Last(snapshots).status = "completed"

\* The same, for the runs in which no call of the observer has thrown.
C23_WithoutObserverException ==
  observerThrows = 0 => C23_SnapshotPerTransition

\* C24: in a run the pauses taken so far are those before the batches of
\* index 1, 2, ... in order, one each and none before batch 0; a batch of
\* index i > 0 leaves 'pending' only after the pause before it, and that
\* pause is taken only after batch i-1 has reached 'completed' or 'failed',
\* whichever of the two; a run over n >= 1 batches that is over, whether it
\* returned or rejected, has taken exactly n-1 pauses.
C24_PauseBeforeEveryLaterBatch ==
  InRun =>
    /\ \A n \in 1..Len(pauses) :
         /\ pauses[n] = n
         /\ n < Len(batches)
         /\ Terminal(batches[n].status)
    /\ \A k \in 2..Len(batches) :
         batches[k].status # "pending" => Len(pauses) >= k - 1
    /\ pc = "processBatch" => Len(pauses) = i /\ Current.status = "pending"
    /\ (pc \in {"returned", "rejected"} /\ Len(batches) >= 1) =>
         Len(pauses) = Len(batches) - 1

\* The same, for the runs that no exception of the observer has rejected:
\* the order of the pauses holds in every run, and the count n-1 in every
\* run that returns.
C24_InRunsThatReturn ==
  pc # "rejected" => C24_PauseBeforeEveryLaterBatch

\* The AI requests sent for the batch at position k of the run.
CallsFor(k) == {n \in 1..Len(fetchCalls) : fetchCalls[n].batch = k}

\* C25: in a run every AI request carries exactly the payload-bearing
\* images of its batch, in batch order, and at least one; a batch none of
\* whose images has a payload gets no AI request and is failed by
\* processBatch with the message 'No processable images in batch'; a batch
\* with a payload-bearing image that processBatch has finished got exactly
\* one AI request; no batch gets a second request, so the requests of a run
\* never outnumber its batches.
C25_OneCallPerPayloadBatch ==
  InRun =>
    /\ \A n \in 1..Len(fetchCalls) :
         /\ fetchCalls[n].batch \in 1..Len(batches)
         /\ fetchCalls[n].images = PayloadBearing(batches[fetchCalls[n].batch].images)
         /\ fetchCalls[n].images # <<>>
    /\ \A k \in 1..Len(batches) :
         /\ Cardinality(CallsFor(k)) <= 1
         /\ PayloadBearing(batches[k].images) = <<>> =>
              /\ CallsFor(k) = {}
              /\ Terminal(batches[k].status) =>
                   batches[k].status = "failed" /\ Truthy(batches[k].error)
              /\ (pc = "pb_returned" /\ k = i + 1) =>
                   batches[k].error = "No processable images in batch"
         /\ (PayloadBearing(batches[k].images) # <<>> /\ Terminal(batches[k].status)) =>
              Cardinality(CallsFor(k)) = 1
    /\ Len(fetchCalls) <= Len(batches)

\* A run over two batches has returned: the batch without a payload failed
\* without an AI request, and the batch of an image with a payload and one
\* without was sent once, with the first image only.
C25_Witness ==
  /\ call = "processAllBatches"
  /\ pc = "returned"
  /\ Len(batches) = 2
  /\ batches[1].images = <<Image(1, Undefined)>>
  /\ batches[1].status = "failed"
  /\ batches[1].error = "No processable images in batch"
  /\ batches[2].images = <<Image(1, "b64"), Image(2, "")>>
  /\ Len(fetchCalls) = 1
  /\ fetchCalls[1].batch = 2
  /\ fetchCalls[1].images = <<Image(1, "b64")>>

(***************************************************************************)
(* The upload directory.                                                   *)
(***************************************************************************)
\* C26: no two writes into the upload directory, whether of one upload
\* call or of two calls handled concurrently, go to the same stored file
\* name: no upload overwrites the stored file of another.
C26_StoredNamesDistinct ==
  call = "UPLOAD" =>
    \A a, b \in 1..Len(writes) : a # b => writes[a].name # writes[b].name

\* The same within one upload call: the writes of one request go to
\* pairwise distinct names.
C26_DistinctWithinOneCall ==
  call = "UPLOAD" =>
    \A a, b \in 1..Len(writes) :
      (a # b /\ writes[a].request = writes[b].request) =>
        writes[a].name # writes[b].name

(***************************************************************************)
(* The fields of a batch.                                                  *)
(***************************************************************************)
\* The fields of a batch agree with its status.
FieldsAgree(b) ==
  CASE b.status = "completed" ->
         /\ b.aiResponse # Undefined
         /\ b.error = Undefined
         /\ b.completedAt # Undefined
    [] b.status = "failed" ->
         /\ Truthy(b.error)
         /\ b.aiResponse = Undefined
         /\ b.completedAt # Undefined
    [] OTHER ->
         /\ b.aiResponse = Undefined
         /\ b.error = Undefined
         /\ b.completedAt = Undefined

\* C27: at every point of a run over batches built by createBatches the
\* fields of every batch agree with its status: a completed batch has a
\* stored response, no error and a completion time; a failed batch has an
\* error message, no stored response and a completion time; a pending or
\* processing batch has none of the three.
C27_FieldsAgreeWithStatus ==
  InRun => \A k \in 1..Len(batches) : FieldsAgree(batches[k])

\* The same, for the runs in which no call of the observer has thrown.
C27_WithoutObserverException ==
  observerThrows = 0 => C27_FieldsAgreeWithStatus

(***************************************************************************)
(* Termination of a run.                                                   *)
(***************************************************************************)
\* processAllBatches has returned and no call of the observer has thrown.
ReturnedNormally ==
  call = "processAllBatches" /\ pc = "returned" /\ observerThrows = 0

\* C28: when every AI call settles and no call of the observer throws, a
\* call of processAllBatches eventually returns; the list it returns has
\* one entry per input batch, in input order, each the input batch object
\* itself and 'completed' or 'failed', so no batch is left 'pending' or
\* 'processing'; and processedImages, also that of the last snapshot,
\* equals totalImages.
C28_RunTerminates ==
  /\ (call = "processAllBatches" /\ pc = "run_entry")
       ~> (pc = "returned" \/ observerThrows > 0)
  /\ [](ReturnedNormally =>
          /\ results = [k \in 1..Len(batches) |-> k]
          /\ \A k \in 1..Len(batches) : Terminal(batches[k].status)
          /\ processedImages = totalImages
          /\ onProgress # Undefined =>
               Last(snapshots).processedImages = Last(snapshots).totalImages)

\* An observed run over two batches has returned without an exception of
\* the observer, one batch failed and one completed.
C28_Witness ==
  /\ ReturnedNormally
  /\ onProgress # Undefined
  /\ Len(batches) = 2
  /\ batches[1].status = "failed"
  /\ batches[2].status = "completed"
  /\ Len(snapshots) = 5

(***************************************************************************)
(* Exceptions of the progress observer.                                    *)
(***************************************************************************)
\* C29: an exception thrown by the observer does not alter the outcome of
\* the run: a batch that processBatch completed (it stores the response)
\* stays 'completed', no batch is returned twice, processedImages never
\* exceeds totalImages, in the run or in a snapshot, and the run ends with
\* one entry per input batch, every batch having been processed.
C29_ObserverExceptionHarmless ==
  Observed =>
    /\ \A k \in 1..Len(batches) :
         batches[k].aiResponse # Undefined => batches[k].status = "completed"
    /\ \A a, b \in 1..Len(results) : a # b => results[a] # results[b]
    /\ processedImages <= totalImages
    /\ \A s \in 1..Len(snapshots) :
         snapshots[s].processedImages <= snapshots[s].totalImages
    /\ pc \in {"returned", "rejected"} =>
         /\ results = [k \in 1..Len(batches) |-> k]
         /\ \A k \in 1..Len(batches) : Terminal(batches[k].status)

\* The same holds of every run in which no call of the observer has thrown.
C29_WithoutObserverException ==
  observerThrows = 0 => C29_ObserverExceptionHarmless

(***************************************************************************)
(* The two pipeline runs of 'Start AI Analysis'.                           *)
(***************************************************************************)
\* The generate-report request of the upload page has been answered.
ReportAnswered == stage # "none" /\ call = "REPORT" /\ pc = "responded"

\* The batches the generate-report boundary builds from the images of the
\* request body.
Rebuilt == createBatches(ReportValidImages(request.images.items))

\* The record of batch k after the second run, from the batch rebuilt from
\* the images of the request and the reply to the k-th AI request of that
\* run alone.
SecondRunRecord(k) ==
  LET o == fetchResults[k].outcome
      failure == NetworkFailure(o) \/ NonSuccessStatus(o) \/ UnreadableReply(o)
  IN [Rebuilt[k] EXCEPT
        !.status = IF failure THEN "failed" ELSE "completed",
        !.error = IF failure THEN AIErrorMessage(o) ELSE Undefined,
        !.aiResponse =
           IF failure THEN Undefined
           ELSE StoredResponse(IF EmptyReply(o)
                               THEN "No specific findings extracted from response."
                               ELSE o.content),
        !.completedAt = "now"]

\* C30: when the generate-report request of 'Start AI Analysis' has been
\* answered, the route has run the pipeline a second time on its own: the
\* body carried the batch results of the first run and no system prompt;
\* the route rebuilt the batches from the images and made one AI call for
\* every batch, the same batches with the same images as the calls of the
\* process-batch request (each batch was sent twice); every call of the
\* second run carried the built-in default prompt whatever the page's
\* prompt is; and the batches of the report are the records of the second
\* run, each decided by the reply to its call of the second run, not the
\* ones the page passed in the body.
C30_ReportFromSecondRun ==
  ReportAnswered =>
    /\ "batches" \in DOMAIN request
    /\ request.systemPrompt = Undefined
    /\ Len(fetchCalls) = Len(Rebuilt)
    /\ Len(fetchResults) = Len(Rebuilt)
    /\ Len(firstRun.calls) = Len(Rebuilt)
    /\ \A k \in 1..Len(Rebuilt) :
         /\ fetchCalls[k].batch = k
         /\ fetchCalls[k].images = Rebuilt[k].images
         /\ fetchCalls[k].system.content = DEFAULT_SYSTEM_PROMPT
         /\ firstRun.calls[k].batch = k
         /\ firstRun.calls[k].images = fetchCalls[k].images
         /\ fetchResults[k].batch = k
    /\ response.status = 200
    /\ Len(response.batches) = Len(Rebuilt)
    /\ \A k \in 1..Len(Rebuilt) : response.batches[k] = SecondRunRecord(k)
    /\ response.report.batches = response.batches

\* The analysis of 21 images under a custom prompt has been answered: both
\* batches went out twice, under the custom prompt in the first run and
\* under the default one in the second; the first batch failed in the
\* first run and completed in the second, the second batch the other way
\* round, and the report has the results of the second run.
C30_Witness ==
  /\ ReportAnswered
  /\ Len(fetchCalls) = 2
  /\ Len(fetchCalls[1].images) = BATCH_SIZE
  /\ Len(fetchCalls[2].images) = 1
  /\ firstRun.calls[1].system.content = CustomPrompt
  /\ firstRun.calls[2].system.content = CustomPrompt
  /\ fetchCalls[1].system.content = DEFAULT_SYSTEM_PROMPT
  /\ fetchCalls[2].system.content = DEFAULT_SYSTEM_PROMPT
  /\ request.batches[1].status = "failed"
  /\ request.batches[2].status = "completed"
  /\ response.batches[1].status = "completed"
  /\ response.batches[2].status = "failed"

====
